---- MODULE Spec2Model ----
(***************************************************************************)
(* OSM Speed Audit Tool: the analysis pipeline of App.tsx (the file        *)
(* src/unnamed/part_000)                                                  *)
(* (handleAnalyzeClick, its worker pool, handleStopClick) and the          *)
(* per-point classification it performs.                                   *)
(*                                                                         *)
(* JavaScript runs one task at a time: every action below is the code that *)
(* runs between two awaits.  In particular the code after a task's         *)
(* `finally` block loops straight back to the cancellation check and the   *)
(* queue.shift() of the next task, and the continuation of                 *)
(* `await Promise.allSettled(workers)` runs as a microtask right after the *)
(* last worker settles, so both are part of the step that completes a task.*)
(***************************************************************************)
EXTENDS Integers, Sequences, FiniteSets, TLC

\* ------------------------------------------------------------------ bounds
MaxSamplePoints == 3
MaxConcurrency == 2
\* the liveness specification explores runs of fewer sample points
LiveSamplePoints == 2

\* --------------------------------------------------------------- encodings
\* `null` of an object or string-sequence value; Some(x) is a present value.
NULL == <<>>
Some(x) == <<x>>
\* `null` of a number (speeds and confidences are never negative).
NoNumber == 0 - 1
\* `null` of a plain string field (imageDate, error).
NoString == "null"

\* The two image references a worker can hold (App.tsx 270 and 299).
Placeholder == "data:image/gif"
Jpeg == "data:image/jpeg"

\* An error message is modelled by the set of the keywords it contains,
\* out of those the classification code looks for (case-insensitively).
Keywords == {"api key", "permission", "403 forbidden", "quota"}

\* streetViewService.getStreetViewImage, status 403.
MsgStreetView403 == {"403 forbidden", "api key", "permission"}
\* streetViewService.getStreetViewImage, imagery not available / other status.
MsgStreetViewOther == {}
\* geminiService.analyzeSpeedSign, the three errors it throws.
MsgGeminiKey == {"api key", "permission"}
MsgGeminiQuota == {"quota"}
MsgGeminiOther == {}
\* fetchStreetData failure / empty path (App.tsx 235).
MsgOsm == {}

ImageErrors == {MsgStreetView403, MsgStreetViewOther}
DetectErrors == {MsgGeminiKey, MsgGeminiQuota, MsgGeminiOther}

\* ------------------------------------------------- classification (pure)
\* Arithmetic on km/h uses the fixed-point scale 10^5, so that the factor
\* 1.60934 is the integer 160934.  For integer speeds below 50000 no
\* difference is closer to the tolerance than 10^-5, so the comparison
\* agrees with the code's double arithmetic.
Scale == 100000
KmhPerMph == 160934
Tolerance == 5
confidenceThreshold == 30

Digits == {"0", "1", "2", "3", "4", "5", "6", "7", "8", "9"}

DigitVal(c) ==
    CASE c = "0" -> 0 [] c = "1" -> 1 [] c = "2" -> 2 [] c = "3" -> 3
      [] c = "4" -> 4 [] c = "5" -> 5 [] c = "6" -> 6 [] c = "7" -> 7
      [] c = "8" -> 8 [] c = "9" -> 9

toLowerCase(c) ==
    CASE c = "M" -> "m" [] c = "P" -> "p" [] c = "H" -> "h" [] OTHER -> c

Abs(x) == IF x < 0 THEN 0 - x ELSE x

\* point.speed.match(/(\d+)/): the first maximal run of digits, or NULL.
OsmSpeedMatch(speed) ==
    LET starts == {i \in 1..Len(speed) : speed[i] \in Digits}
    IN  IF starts = {} THEN NULL
        ELSE LET first == CHOOSE i \in starts : \A j \in starts : i <= j
                 last == CHOOSE k \in first..Len(speed) :
                            /\ \A j \in first..k : speed[j] \in Digits
                            /\ (k = Len(speed) \/ speed[k + 1] \notin Digits)
             IN  SubSeq(speed, first, last)

RECURSIVE parseInt(_)
parseInt(digits) ==
    IF digits = <<>> THEN 0
    ELSE 10 * parseInt(SubSeq(digits, 1, Len(digits) - 1))
           + DigitVal(digits[Len(digits)])

\* point.speed.toLowerCase().includes('mph')
IncludesMph(speed) ==
    \E i \in 1..(Len(speed) - 2) :
        /\ toLowerCase(speed[i]) = "m"
        /\ toLowerCase(speed[i + 1]) = "p"
        /\ toLowerCase(speed[i + 2]) = "h"

\* App.tsx 304-315: confidence threshold, then the country's bounds.
\* analysisResult is NULL or Some([speed_limit, confidence]).
Confidence(analysisResult) ==
    IF analysisResult = NULL THEN NoNumber ELSE analysisResult[1].confidence

minSpeed(country) == IF country = "USA" THEN 5 ELSE 10
maxSpeed(country) == IF country = "USA" THEN 90 ELSE 150

\* Variant: the confidence is not looked at.
FinalDetectedSpeedAnyConfidence(analysisResult, country) ==
    LET raw == IF analysisResult = NULL THEN NoNumber
               ELSE analysisResult[1].speed_limit
    IN  IF raw # NoNumber /\ raw >= minSpeed(country) /\ raw <= maxSpeed(country)
        THEN raw ELSE NoNumber

FinalDetectedSpeed(analysisResult, country) ==
    LET raw == IF analysisResult = NULL THEN NoNumber
               ELSE analysisResult[1].speed_limit
        confidence == Confidence(analysisResult)
        detectedSpeed ==
            IF raw # NoNumber /\ confidence # NoNumber
                 /\ confidence < confidenceThreshold
            THEN NoNumber ELSE raw
    IN  IF detectedSpeed # NoNumber /\ detectedSpeed >= minSpeed(country)
             /\ detectedSpeed <= maxSpeed(country)
        THEN detectedSpeed ELSE NoNumber

\* Variant: the recorded value is compared without converting mph.
IsDiscrepancyIgnoringUnits(speed, finalDetectedSpeed, country) ==
    LET hasOsmSpeed == speed # NULL
        hasDetectedSpeed == finalDetectedSpeed # NoNumber
    IN  IF hasOsmSpeed /\ hasDetectedSpeed
        THEN LET osmSpeedMatch == OsmSpeedMatch(speed)
             IN  IF osmSpeedMatch # NULL
                 THEN Abs(parseInt(osmSpeedMatch) * Scale
                            - (IF country = "USA"
                               THEN finalDetectedSpeed * KmhPerMph
                               ELSE finalDetectedSpeed * Scale))
                        > Tolerance * Scale
                 ELSE TRUE
        ELSE IF ~hasOsmSpeed /\ hasDetectedSpeed THEN TRUE ELSE FALSE

\* App.tsx 317-344.
IsDiscrepancy(speed, finalDetectedSpeed, country) ==
    LET hasOsmSpeed == speed # NULL
        hasDetectedSpeed == finalDetectedSpeed # NoNumber
    IN  IF hasOsmSpeed /\ hasDetectedSpeed
        THEN LET osmSpeedMatch == OsmSpeedMatch(speed)
             IN  IF osmSpeedMatch # NULL
                 THEN LET osmSpeedValue == parseInt(osmSpeedMatch)
                          osmSpeedInKmh ==
                              IF IncludesMph(speed)
                              THEN osmSpeedValue * KmhPerMph
                              ELSE osmSpeedValue * Scale
                          detectedSpeedInKmh ==
                              IF country = "USA"
                              THEN finalDetectedSpeed * KmhPerMph
                              ELSE finalDetectedSpeed * Scale
                      IN  Abs(osmSpeedInKmh - detectedSpeedInKmh)
                              > Tolerance * Scale
                 ELSE TRUE
        ELSE IF ~hasOsmSpeed /\ hasDetectedSpeed THEN TRUE ELSE FALSE

\* App.tsx 354: the AnalyzedPoint of a task that succeeded.
ClassifiedPoint(point, analysisResult, imageUrl, imageDate, country) ==
    LET finalDetectedSpeed == FinalDetectedSpeed(analysisResult, country)
    IN  [id |-> point.pos, location |-> point, osmSpeed |-> point.speed,
         detectedSpeed |-> finalDetectedSpeed,
         confidence |-> Confidence(analysisResult),
         isDiscrepancy |-> IsDiscrepancy(point.speed, finalDetectedSpeed, country),
         imageUrl |-> imageUrl, imageDate |-> imageDate]

\* Variant: a failed point always carries the placeholder image.
FailedPointPlaceholder(point, imageUrl, imageDate) ==
    [id |-> point.pos, location |-> point, osmSpeed |-> point.speed,
     detectedSpeed |-> NoNumber, confidence |-> NoNumber,
     isDiscrepancy |-> FALSE,
     imageUrl |-> Placeholder, imageDate |-> imageDate]

\* App.tsx 359-366: the AnalyzedPoint of a task that threw.
FailedPoint(point, imageUrl, imageDate) ==
    [id |-> point.pos, location |-> point, osmSpeed |-> point.speed,
     detectedSpeed |-> NoNumber, confidence |-> NoNumber,
     isDiscrepancy |-> FALSE,
     imageUrl |-> imageUrl, imageDate |-> imageDate]

\* Variant: quota errors are treated as fatal too.
IsFatalOrQuota(msg) ==
    "api key" \in msg \/ "permission" \in msg \/ "403 forbidden" \in msg
        \/ "quota" \in msg

\* App.tsx 369.
IsFatal(msg) ==
    "api key" \in msg \/ "permission" \in msg \/ "403 forbidden" \in msg

\* ------------------------------------------------------- program state
VARIABLES
    pc,                   \* handleAnalyzeClick: "idle", "fetchStreetData", "allSettled"
    isLoading, isCancelledRef, analyzedPoints, error, isKeyInvalid,
    progress, totalPointsToAnalyze,
    lastLog,              \* the status line most recently added to the log
    country, concurrency, maxPoints,   \* form settings (fixed while loading)
    pointsToAnalyze, results, queue,   \* locals of handleAnalyzeClick
    workers               \* one record per worker() call: its position and locals

\* History of the current run, kept for the properties only.
VARIABLES
    taskState,      \* per sample index: pending / fetching / detecting / classified / failed
    failedIn,       \* per sample index: the stage a failed task threw in
    claimCount,     \* per sample index: how many times it left the queue
    writeCount,     \* per sample index: how many times results[index] was assigned
    outOfOrder,     \* some task was stored while an earlier one was still unstored
    stopRequested,  \* handleStopClick ran during this run
    fatalRaised,    \* a worker classified an error as fatal during this run
    atCancel,       \* snapshot taken when the flag went from clear to set
    lookups,        \* per sample index: which of the two imagery lookups succeeded
    afterStop       \* the flag was still set from an earlier run when this run began

\* Inputs and output of the stand-alone classification check.
VARIABLES clsInput, clsOutput

\* Inputs and output of the stand-alone path assembly check (fetchStreetData).
VARIABLES asmInput, asmOutput

\* Inputs and output of the stand-alone sampling check (getSamplePoints).
VARIABLES smpInput, smpOutput

\* One call of analyzeSpeedSign (geminiService) and one request loop of
\* fetchStreetData (osmService), each followed on its own.
VARIABLES gemini, overpass

\* The cache of osmService and the arrays it shares with its callers.
VARIABLES
    heap,           \* the OSMPoint arrays alive in the page, by reference
    memoryCache,    \* osmService 7: the reference cached for the street, or NULL
    localStorage,   \* the JSON copy stored for the street, or NULL
    runs            \* per run so far: the setting and the path that was analysed

poolVars == <<pc, isLoading, isCancelledRef, analyzedPoints, error, isKeyInvalid,
              progress, totalPointsToAnalyze, lastLog, country, concurrency,
              maxPoints, pointsToAnalyze, results, queue, workers>>
histVars == <<taskState, failedIn, claimCount, writeCount, outOfOrder,
              stopRequested, fatalRaised, atCancel, lookups, afterStop>>
clsVars == <<clsInput, clsOutput>>
asmVars == <<asmInput, asmOutput>>
smpVars == <<smpInput, smpOutput>>
cacheVars == <<heap, memoryCache, localStorage, runs>>
svcVars == <<gemini, overpass, cacheVars>>
pureVars == <<clsVars, asmVars, smpVars, svcVars>>
vars == <<poolVars, histVars, pureVars>>

\* A service call that has not been made.
NoCall == [pc |-> "idle"]

ServicesIdle ==
    /\ gemini = NoCall
    /\ overpass = NoCall
    /\ heap = <<>>
    /\ memoryCache = <<>>
    /\ localStorage = <<>>
    /\ runs = <<>>

Countries == {"USA", "Canada"}

\* Inputs of the pool model: the speed tag of the sample points (untagged
\* points are covered by the classification check) and the answers of the
\* vision model.  The pool runs with the country the form starts with
\* (App.tsx 75); the classification is checked for both countries.
PoolSpeed == <<"5", "0">>
PoolAnalysisResults == {Some([speed_limit |-> 50, confidence |-> 90])}
ImageDates == {"2021-05"}

\* What getStreetViewImage and getStreetViewMetadata resolve with; neither
\* of them throws (streetViewService 13-42 and 44-102).
ImageResults ==
    {[success |-> TRUE, error |-> {}]}
        \cup {[success |-> FALSE, error |-> msg] : msg \in ImageErrors}
MetadataResults ==
    {[success |-> TRUE, date |-> d] : d \in ImageDates}
        \cup {[success |-> FALSE, date |-> NoString]}

\* Variant: a failed metadata lookup fails the task as well.
ImageryThrowsOnEither(imageResult, metadataResult) ==
    ~imageResult.success \/ ~metadataResult.success

\* App.tsx 289-291: only the image lookup is looked at.
ImageryThrows(imageResult, metadataResult) == ~imageResult.success

\* App.tsx 293-297: imageDate stays null when the metadata lookup failed.
ImageDateOf(metadataResult) ==
    IF metadataResult.success THEN metadataResult.date ELSE NoString

LookupOutcome(imageResult, metadataResult) ==
    [image |-> imageResult.success, metadata |-> metadataResult.success,
     error |-> imageResult.error, pending |-> FALSE]

NoLookup == [image |-> FALSE, metadata |-> FALSE, error |-> {}, pending |-> TRUE]

NoSnapshot == [set |-> FALSE, inFlight |-> 0, stored |-> 0]

Settled == {"exited", "rejected"}
InFlight == {"fetching", "detecting"}

IdleWorker(state) ==
    [pc |-> state, index |-> 0, imageUrl |-> Placeholder, imageDate |-> NoString]

NumStored(res) == Cardinality({i \in DOMAIN res : res[i] # NULL})
NumInFlight(ws) == Cardinality({w \in DOMAIN ws : ws[w].pc \in InFlight})

\* Variant: the worker does not look at the flag before claiming.
ShouldClaimIgnoringFlag(cancelled, q) == q # <<>>

\* App.tsx 264-266: the worker claims a task only if the flag is clear and
\* the queue is not empty.
ShouldClaim(cancelled, q) == ~cancelled /\ q # <<>>

\* Variant: the worker reads the head of the queue without removing it.
peek(q) == q

\* App.tsx 265: queue.shift() removes the element it returns.
shift(q) == Tail(q)

\* App.tsx 263-279: top of the worker loop up to the first await.
ClaimNext(cancelled, q) ==
    IF ShouldClaim(cancelled, q)
    THEN [pc |-> "fetching", index |-> Head(q),
          imageUrl |-> Placeholder, imageDate |-> NoString]
    ELSE IdleWorker("exited")

QueueAfterClaim(cancelled, q) ==
    IF ShouldClaim(cancelled, q) THEN shift(q) ELSE q

\* App.tsx 390: Array.from({length: concurrency}, () => worker()); each call
\* runs synchronously up to its first await.
RECURSIVE Launch(_, _, _, _)
Launch(k, cancelled, q, ws) ==
    IF k = 0 THEN [queue |-> q, workers |-> ws]
    ELSE Launch(k - 1, cancelled, QueueAfterClaim(cancelled, q),
                Append(ws, ClaimNext(cancelled, q)))

\* Variant: the point is pushed to the first free slot, in completion order.
StoreResultInCompletionOrder(res, index, newPoint) ==
    LET free == {i \in DOMAIN res : res[i] = NULL}
    IN  IF free = {} THEN res
        ELSE [res EXCEPT ![CHOOSE i \in free : \A j \in free : i <= j] =
                            Some(newPoint)]

\* Variant: a point that completes after cancellation is dropped.
StoreResultUnlessCancelled(res, index, newPoint) ==
    IF isCancelledRef THEN res ELSE [res EXCEPT ![index] = Some(newPoint)]

\* App.tsx 383: results[index] = newPoint.
StoreResult(res, index, newPoint) == [res EXCEPT ![index] = Some(newPoint)]

\* Variant: the filter also drops the points without a detected speed.
RECURSIVE FinalPointsWithDetection(_)
FinalPointsWithDetection(res) ==
    IF res = <<>> THEN <<>>
    ELSE (IF Head(res) = NULL \/ Head(res)[1].detectedSpeed = NoNumber
          THEN <<>> ELSE <<Head(res)[1]>>)
            \o FinalPointsWithDetection(Tail(res))

\* App.tsx 393: results.filter(p => p !== null).
RECURSIVE FinalPoints(_)
FinalPoints(res) ==
    IF res = <<>> THEN <<>>
    ELSE (IF Head(res) = NULL THEN <<>> ELSE <<Head(res)[1]>>)
            \o FinalPoints(Tail(res))

\* App.tsx 391-406 and 425-427: what runs once every worker has settled.
\* Promise.allSettled never rejects, so the catch block is not entered.
AfterAllSettled(res, cancelled) ==
    /\ analyzedPoints' = FinalPoints(res)
    /\ lastLog' = IF cancelled THEN "Analysis stopped." ELSE "Analysis complete."
    /\ isLoading' = FALSE
    /\ pc' = "idle"

\* Variant: the run waits until every worker has returned normally.
AllExited(ws) == \A w \in DOMAIN ws : ws[w].pc = "exited"

\* App.tsx 391: Promise.allSettled resolves once every worker's promise has
\* resolved or rejected.
AllSettled(ws) == \A w \in DOMAIN ws : ws[w].pc \in Settled

\* The state after App is constructed (App.tsx 64-96): nothing loading,
\* the flag clear, no results; the form holds the settings of the run.
PoolIdle(maxPointsSetting, countrySettings) ==
    /\ maxPoints = maxPointsSetting
    /\ pc = "idle"
    /\ isLoading = FALSE
    /\ isCancelledRef = FALSE
    /\ analyzedPoints = <<>>
    /\ error = NoString
    /\ isKeyInvalid = FALSE
    /\ progress = 0
    /\ totalPointsToAnalyze = 0
    /\ lastLog = "Welcome!"
    /\ country \in countrySettings
    /\ concurrency \in 1..MaxConcurrency
    /\ pointsToAnalyze = <<>>
    /\ results = <<>>
    /\ queue = <<>>
    /\ workers = <<>>
    /\ taskState = <<>>
    /\ failedIn = <<>>
    /\ claimCount = <<>>
    /\ writeCount = <<>>
    /\ outOfOrder = FALSE
    /\ stopRequested = FALSE
    /\ fatalRaised = FALSE
    /\ atCancel = NoSnapshot
    /\ lookups = <<>>
    /\ afterStop = FALSE

Init ==
    /\ PoolIdle(MaxSamplePoints, {"USA"})
    /\ clsInput = NULL
    /\ clsOutput = NULL
    /\ asmInput = NULL
    /\ asmOutput = NULL
    /\ smpInput = NULL
    /\ smpOutput = NULL
    /\ ServicesIdle

\* App.tsx 109-112.  The Stop button is rendered only while isLoading.
handleStopClick ==
    /\ isLoading
    /\ isCancelledRef' = TRUE
    /\ stopRequested' = TRUE
    /\ atCancel' = IF isCancelledRef THEN atCancel
                   ELSE [set |-> TRUE, inFlight |-> NumInFlight(workers),
                         stored |-> NumStored(results)]
    /\ UNCHANGED <<pc, isLoading, analyzedPoints, error, isKeyInvalid, progress,
                   totalPointsToAnalyze, lastLog, country, concurrency,
                   maxPoints, pointsToAnalyze, results, queue, workers>>
    /\ UNCHANGED <<taskState, failedIn, claimCount, writeCount, outOfOrder,
                   fatalRaised, lookups, afterStop>>
    /\ UNCHANGED pureVars

\* Variant: the click leaves the flag as the previous run left it.
FlagKept(flag) == flag

\* App.tsx 209: isCancelledRef.current = false.
FlagAtStart(flag) == FALSE

\* App.tsx 196-221: the click up to `await fetchStreetData`.  The Analyze
\* button is rendered only while not loading.
handleAnalyzeClick ==
    /\ pc = "idle"
    /\ ~isLoading
    /\ \E haveInputs \in BOOLEAN :
        IF ~haveInputs
        THEN /\ error' = "missing input"
             /\ lastLog' = "Analysis halted"
             /\ UNCHANGED <<pc, isLoading, isCancelledRef, analyzedPoints,
                            isKeyInvalid, progress, totalPointsToAnalyze,
                            pointsToAnalyze, results, queue, workers>>
             /\ UNCHANGED histVars
        ELSE /\ isCancelledRef' = FlagAtStart(isCancelledRef)
             /\ afterStop' = isCancelledRef
             /\ isLoading' = TRUE
             /\ analyzedPoints' = <<>>
             /\ error' = NoString
             /\ isKeyInvalid' = FALSE
             /\ progress' = 0
             /\ totalPointsToAnalyze' = 0
             /\ lastLog' = "Analysis started"
             /\ pc' = "fetchStreetData"
             \* locals of the previous call are gone
             /\ pointsToAnalyze' = <<>>
             /\ results' = <<>>
             /\ queue' = <<>>
             /\ workers' = <<>>
             /\ taskState' = <<>>
             /\ failedIn' = <<>>
             /\ claimCount' = <<>>
             /\ writeCount' = <<>>
             /\ outOfOrder' = FALSE
             /\ stopRequested' = FALSE
             /\ fatalRaised' = FALSE
             /\ atCancel' = NoSnapshot
             /\ lookups' = <<>>
    /\ UNCHANGED <<country, concurrency, maxPoints>>
    /\ UNCHANGED pureVars

\* App.tsx 221-236 with 408-427: fetchStreetData throws, or the path is empty.
FetchStreetDataFails ==
    /\ pc = "fetchStreetData"
    /\ \E msg \in {MsgOsm, MsgStreetView403} :
        /\ isKeyInvalid' = IsFatal(msg)
        /\ error' = IF IsFatal(msg) THEN "API key error" ELSE "errorMessage"
    /\ lastLog' = "FATAL ERROR"
    /\ isLoading' = FALSE
    /\ pc' = "idle"
    /\ UNCHANGED <<isCancelledRef, analyzedPoints, progress, totalPointsToAnalyze,
                   country, concurrency, maxPoints, pointsToAnalyze, results,
                   queue, workers>>
    /\ UNCHANGED histVars
    /\ UNCHANGED pureVars

\* App.tsx 240-254: getSamplePoints yields nothing.
NoSamplePoints ==
    /\ pc = "fetchStreetData"
    /\ lastLog' = "No sample points generated"
    /\ isLoading' = FALSE
    /\ pc' = "idle"
    /\ UNCHANGED <<isCancelledRef, analyzedPoints, error, isKeyInvalid, progress,
                   totalPointsToAnalyze, country, concurrency, maxPoints,
                   pointsToAnalyze, results, queue, workers>>
    /\ UNCHANGED histVars
    /\ UNCHANGED pureVars

\* Variant: one worker is started for every sample point.
PoolSizePerPoint(concurrencySetting, numPoints) == numPoints

\* App.tsx 390: Array.from({ length: concurrency }, ...).
PoolSize(concurrencySetting, numPoints) == concurrencySetting

\* App.tsx 240-260 and 390-391: the sample points are there (at most
\* maxPoints of them, 245-248), the results array and the queue are built
\* and the workers are started.
StartWorkers ==
    /\ pc = "fetchStreetData"
    /\ \E n \in 1..maxPoints :
        LET points == [i \in 1..n |-> [pos |-> i, speed |-> PoolSpeed]]
            res0 == [i \in 1..n |-> NULL]
            q0 == [i \in 1..n |-> i]
            started == Launch(PoolSize(concurrency, n), isCancelledRef, q0, <<>>)
            claimed == {started.workers[w].index : w \in DOMAIN started.workers} \ {0}
        IN  /\ pointsToAnalyze' = points
            /\ totalPointsToAnalyze' = n
            /\ results' = res0
            /\ queue' = started.queue
            /\ workers' = started.workers
            /\ taskState' = [i \in 1..n |-> IF i \in claimed THEN "fetching" ELSE "pending"]
            /\ failedIn' = [i \in 1..n |-> "none"]
            /\ claimCount' =
                 [i \in 1..n |-> Cardinality({w \in DOMAIN started.workers :
                                                started.workers[w].index = i})]
            /\ writeCount' = [i \in 1..n |-> 0]
            /\ lookups' = [i \in 1..n |-> NoLookup]
            /\ IF AllSettled(started.workers)
               THEN AfterAllSettled(res0, isCancelledRef)
               ELSE /\ pc' = "allSettled"
                    /\ lastLog' = "Starting parallel analysis"
                    /\ UNCHANGED <<analyzedPoints, isLoading>>
    /\ UNCHANGED <<isCancelledRef, error, isKeyInvalid, progress, country,
                   concurrency, maxPoints>>
    /\ UNCHANGED <<outOfOrder, stopRequested, fatalRaised, atCancel, afterStop>>
    /\ UNCHANGED pureVars

\* Variant: the progress is advanced only when the task succeeded.
NextProgressOnSuccess(p, failed) == IF failed THEN p ELSE p + 1

\* App.tsx 381-386: `finally { ...; setProgress(p => p + 1) }`.
NextProgress(p, failed) == p + 1

\* App.tsx 356-388 and 391-406: the end of one task.  newPoint is stored and
\* the progress advanced in `finally`; a fatal error sets the flag and rejects
\* the worker's promise, otherwise the loop goes on to the next claim.
FinishTask(w, newPoint, failed, fatal) ==
    LET index == workers[w].index
        res2 == StoreResult(results, index, newPoint)
        cancelled2 == isCancelledRef \/ fatal
        next == IF fatal THEN IdleWorker("rejected")
                ELSE ClaimNext(cancelled2, queue)
        ws2 == [workers EXCEPT ![w] = next]
    IN  /\ results' = res2
        /\ progress' = NextProgress(progress, failed)
        /\ isCancelledRef' = cancelled2
        /\ queue' = IF fatal THEN queue ELSE QueueAfterClaim(cancelled2, queue)
        /\ workers' = ws2
        /\ taskState' =
             [i \in DOMAIN taskState |->
                IF i = next.index THEN "fetching"
                ELSE IF i = index THEN (IF failed THEN "failed" ELSE "classified")
                ELSE taskState[i]]
        /\ failedIn' = [failedIn EXCEPT ![index] =
                          IF failed THEN workers[w].pc ELSE "none"]
        /\ claimCount' =
             [i \in DOMAIN claimCount |->
                IF i = next.index THEN claimCount[i] + 1 ELSE claimCount[i]]
        /\ writeCount' = [writeCount EXCEPT ![index] = @ + 1]
        /\ outOfOrder' = (outOfOrder \/ \E j \in 1..(index - 1) : results[j] = NULL)
        /\ fatalRaised' = (fatalRaised \/ fatal)
        /\ atCancel' = IF fatal /\ ~isCancelledRef
                       THEN [set |-> TRUE, inFlight |-> NumInFlight(workers),
                             stored |-> NumStored(results)]
                       ELSE atCancel
        /\ IF AllSettled(ws2)
           THEN AfterAllSettled(res2, cancelled2)
           ELSE UNCHANGED <<pc, isLoading, analyzedPoints, lastLog>>
        /\ UNCHANGED <<error, isKeyInvalid, totalPointsToAnalyze, country,
                       concurrency, maxPoints, pointsToAnalyze, stopRequested,
                       afterStop>>
        /\ UNCHANGED pureVars

\* App.tsx 284-302: Promise.all([getStreetViewImage, getStreetViewMetadata])
\* resolves with a usable image; the metadata lookup succeeded or not.
ImageryReturns(w) ==
    /\ w \in DOMAIN workers
    /\ workers[w].pc = "fetching"
    /\ \E imageResult \in ImageResults, metadataResult \in MetadataResults :
        /\ ~ImageryThrows(imageResult, metadataResult)
        /\ workers' = [workers EXCEPT ![w].pc = "detecting",
                                      ![w].imageUrl = Jpeg,
                                      ![w].imageDate = ImageDateOf(metadataResult)]
        /\ lookups' = [lookups EXCEPT ![workers[w].index] =
                          LookupOutcome(imageResult, metadataResult)]
    /\ taskState' = [taskState EXCEPT ![workers[w].index] = "detecting"]
    /\ UNCHANGED <<pc, isLoading, isCancelledRef, analyzedPoints, error,
                   isKeyInvalid, progress, totalPointsToAnalyze, lastLog,
                   country, concurrency, maxPoints, pointsToAnalyze, results,
                   queue>>
    /\ UNCHANGED <<failedIn, claimCount, writeCount, outOfOrder, stopRequested,
                   fatalRaised, atCancel, afterStop>>
    /\ UNCHANGED pureVars

\* The task of worker w throws msg (App.tsx 290 or the await at 302).
TaskThrows(w, msg) ==
    FinishTask(w,
               FailedPoint(pointsToAnalyze[workers[w].index],
                           workers[w].imageUrl, workers[w].imageDate),
               TRUE, IsFatal(msg))

\* App.tsx 289-291: the image lookup failed, whatever the metadata lookup did.
ImageryFails(w) ==
    /\ w \in DOMAIN workers
    /\ workers[w].pc = "fetching"
    /\ \E imageResult \in ImageResults, metadataResult \in MetadataResults :
        /\ ImageryThrows(imageResult, metadataResult)
        /\ TaskThrows(w, imageResult.error)
        /\ lookups' = [lookups EXCEPT ![workers[w].index] =
                          LookupOutcome(imageResult, metadataResult)]

\* App.tsx 302-354: analyzeSpeedSign returns; the point is classified.
DetectReturns(w) ==
    /\ w \in DOMAIN workers
    /\ workers[w].pc = "detecting"
    /\ \E analysisResult \in PoolAnalysisResults :
        FinishTask(w,
                   ClassifiedPoint(pointsToAnalyze[workers[w].index], analysisResult,
                                   workers[w].imageUrl, workers[w].imageDate, country),
                   FALSE, FALSE)
    /\ UNCHANGED lookups

\* App.tsx 302: analyzeSpeedSign throws.
DetectThrows(w) ==
    /\ w \in DOMAIN workers
    /\ workers[w].pc = "detecting"
    /\ \E msg \in DetectErrors : TaskThrows(w, msg)
    /\ UNCHANGED lookups

WorkerIds == 1..(MaxConcurrency + 1)

Next ==
    \/ handleAnalyzeClick
    \/ handleStopClick
    \/ FetchStreetDataFails
    \/ NoSamplePoints
    \/ StartWorkers
    \/ \E w \in WorkerIds : ImageryReturns(w)
    \/ \E w \in WorkerIds : ImageryFails(w)
    \/ \E w \in WorkerIds : DetectReturns(w)
    \/ \E w \in WorkerIds : DetectThrows(w)

Spec == Init /\ [][Next]_vars


\* Every external call eventually returns: the map-data request returns or
\* throws, while an imagery lookup is outstanding one of them resolves, and
\* while a vision-model call is outstanding one of them returns or throws.
StreetDataCallReturns == FetchStreetDataFails \/ NoSamplePoints \/ StartWorkers
ImageryCallReturns == \E w \in WorkerIds : ImageryFails(w) \/ ImageryReturns(w)
DetectCallReturns == \E w \in WorkerIds : DetectThrows(w) \/ DetectReturns(w)

LiveInit ==
    /\ PoolIdle(LiveSamplePoints, {"USA"})
    /\ clsInput = NULL
    /\ clsOutput = NULL
    /\ asmInput = NULL
    /\ asmOutput = NULL
    /\ smpInput = NULL
    /\ smpOutput = NULL
    /\ ServicesIdle

FairSpec ==
    /\ LiveInit
    /\ [][Next]_vars
    /\ WF_vars(StreetDataCallReturns)
    /\ WF_vars(ImageryCallReturns)
    /\ WF_vars(DetectCallReturns)

\* ------------------------------------------- classification on its own
\* The classification of one task (App.tsx 304-366) applied to a wide range
\* of recorded tags and detections.  Each tag comes with what it means: its
\* numeric part (NoNumber when it has no digit) and whether it is in mph.
MaxDetected == 160

Tag(text, value, mph) == [text |-> text, value |-> value, mph |-> mph]

SpeedTags ==
    { Tag(NULL, NoNumber, FALSE),
      Tag(<<"5", "0">>, 50, FALSE),
      Tag(<<"8", "0">>, 80, FALSE),
      Tag(<<"1", "0", "0">>, 100, FALSE),
      Tag(<<"3", "0", " ", "m", "p", "h">>, 30, TRUE),
      Tag(<<"5", "0", " ", "m", "p", "h">>, 50, TRUE),
      Tag(<<"3", "5", " ", "M", "P", "H">>, 35, TRUE),
      Tag(<<"5", "5", "m", "p", "h">>, 55, TRUE),
      Tag(<<"s", "i", "g", "n", "a", "l", "s">>, NoNumber, FALSE),
      Tag(<<"n", "o", "n", "e">>, NoNumber, FALSE) }

ClassifyResults ==
    {NULL} \cup
    { Some([speed_limit |-> s, confidence |-> c]) :
        s \in {NoNumber} \cup 1..MaxDetected, c \in {10, 30, 90} }

ClassifyInit ==
    /\ PoolIdle(MaxSamplePoints, Countries)
    /\ clsInput \in { Some([tag |-> t, analysisResult |-> r]) :
                        t \in SpeedTags, r \in ClassifyResults }
    /\ clsOutput = NULL
    /\ asmInput = NULL
    /\ asmOutput = NULL
    /\ smpInput = NULL
    /\ smpOutput = NULL
    /\ ServicesIdle

ClassifyPoint == [pos |-> 1, speed |-> clsInput[1].tag.text]

\* App.tsx 302-354: the task succeeds.
Classify ==
    /\ clsInput # NULL
    /\ clsOutput = NULL
    /\ clsOutput' = Some(ClassifiedPoint(ClassifyPoint, clsInput[1].analysisResult,
                                         Jpeg, NoString, country))
    /\ UNCHANGED <<poolVars, histVars, clsInput, asmVars, smpVars, svcVars>>

\* App.tsx 356-366: the task throws after the image was fetched.
ClassifyFails ==
    /\ clsInput # NULL
    /\ clsOutput = NULL
    /\ clsOutput' = Some(FailedPoint(ClassifyPoint, Jpeg, NoString))
    /\ UNCHANGED <<poolVars, histVars, clsInput, asmVars, smpVars, svcVars>>

ClassifyNext == Classify \/ ClassifyFails

ClassifySpec == ClassifyInit /\ [][ClassifyNext]_vars

\* ------------------------------------------------- path assembly on its own
\* fetchStreetData from the parsed Overpass answer to the returned path
\* (osmService, the file src/unnamed/part_003, lines 224-376), applied to
\* small sets of ways.  A way is [id, nodes, speed, oneway]; a path point is
\* [lat, lon, speed, wayId]; `nodes` maps a node id to its coordinates.
MaxWays == 3

Last(seq) == seq[Len(seq)]

RECURSIVE reverse(_)
reverse(seq) == IF seq = <<>> THEN <<>> ELSE Append(reverse(Tail(seq)), Head(seq))

RemoveAt(seq, i) == SubSeq(seq, 1, i - 1) \o SubSeq(seq, i + 1, Len(seq))

RECURSIVE Ascending(_)
Ascending(S) ==
    IF S = {} THEN <<>>
    ELSE LET m == CHOOSE x \in S : \A y \in S : x <= y
         IN  <<m>> \o Ascending(S \ {m})

\* part_003 224-233: the `ways` object; a later element replaces an earlier
\* one with the same id.
WaysOf(elements) ==
    [id \in {elements[k].id : k \in DOMAIN elements} |->
        elements[CHOOSE k \in DOMAIN elements :
                    /\ elements[k].id = id
                    /\ \A j \in DOMAIN elements : elements[j].id = id => j <= k]]

\* Variant: the ways are visited in the order they were received.
KeysInReceivedOrder(elements) == [k \in DOMAIN elements |-> elements[k].id]

\* part_003 240 and 253: `for (const wayIdStr in ways)` visits the integer
\* keys of an object in ascending numeric order.
OwnKeys(elements) == Ascending({elements[k].id : k \in DOMAIN elements})

\* part_003 239-248: the way ids pushed for node n (a way whose two ends are
\* the same node is pushed twice).
RECURSIVE nodeToWayMap(_, _, _)
nodeToWayMap(ways, keys, n) ==
    IF keys = <<>> THEN <<>>
    ELSE LET way == ways[Head(keys)]
             ends == IF Len(way.nodes) > 0
                     THEN <<way.nodes[1], Last(way.nodes)>> ELSE <<>>
         IN  [k \in 1..Len(SelectSeq(ends, LAMBDA e : e = n)) |-> way.id]
                \o nodeToWayMap(ways, Tail(keys), n)

\* The state of chain building: the chains finished so far, the chain being
\* grown, usedWays, and the sequence of usedWays.add calls.
Connections(ways, keys, used, tip) ==
    SelectSeq(nodeToWayMap(ways, keys, tip), LAMBDA w : w \notin used)

\* part_003 260-275.
RECURSIVE ExtendForward(_, _, _, _)
ExtendForward(ways, keys, st, tip) ==
    LET connections == Connections(ways, keys, st.usedWays, tip)
    IN  IF connections = <<>> THEN st
        ELSE LET nextWayId == connections[1]
                 nextWay == ways[nextWayId]
                 st2 == [st EXCEPT !.currentChain = Append(@, nextWayId),
                                   !.usedWays = @ \cup {nextWayId},
                                   !.adds = Append(@, nextWayId)]
             IN  ExtendForward(ways, keys, st2,
                               IF nextWay.nodes[1] = tip
                               THEN Last(nextWay.nodes) ELSE nextWay.nodes[1])

\* part_003 277-292.
RECURSIVE ExtendBackward(_, _, _, _)
ExtendBackward(ways, keys, st, tip) ==
    LET connections == Connections(ways, keys, st.usedWays, tip)
    IN  IF connections = <<>> THEN st
        ELSE LET nextWayId == connections[1]
                 nextWay == ways[nextWayId]
                 st2 == [st EXCEPT !.currentChain = <<nextWayId>> \o @,
                                   !.usedWays = @ \cup {nextWayId},
                                   !.adds = Append(@, nextWayId)]
             IN  ExtendBackward(ways, keys, st2,
                                IF Last(nextWay.nodes) = tip
                                THEN nextWay.nodes[1] ELSE Last(nextWay.nodes))

\* Variant: a way that is already used still starts a chain of its own.
SeedsChainAlways(usedWays, wayId) == TRUE

\* part_003 255: `if (usedWays.has(wayId)) continue`.
SeedsChain(usedWays, wayId) == wayId \notin usedWays

\* part_003 250-295.
RECURSIVE BuildChains(_, _, _, _)
BuildChains(ways, keys, todo, st) ==
    IF todo = <<>> THEN st
    ELSE LET wayId == Head(todo)
         IN  IF ~SeedsChain(st.usedWays, wayId)
             THEN BuildChains(ways, keys, Tail(todo), st)
             ELSE LET s0 == [st EXCEPT !.currentChain = <<wayId>>,
                                       !.usedWays = @ \cup {wayId},
                                       !.adds = Append(@, wayId)]
                      s1 == ExtendForward(ways, keys, s0, Last(ways[wayId].nodes))
                      s2 == ExtendBackward(ways, keys, s1, ways[wayId].nodes[1])
                  IN  BuildChains(ways, keys, Tail(todo),
                                  [s2 EXCEPT !.chains = Append(@, s2.currentChain)])

\* part_003 299: chains.sort((a, b) => b.length - a.length); the sort is
\* stable, so chains of equal length keep the order they were built in.
RECURSIVE SortChains(_)
SortChains(chains) ==
    IF chains = <<>> THEN <<>>
    ELSE LET i == CHOOSE i \in DOMAIN chains :
                    /\ \A j \in DOMAIN chains : Len(chains[j]) <= Len(chains[i])
                    /\ \A j \in 1..(i - 1) : Len(chains[j]) < Len(chains[i])
         IN  <<chains[i]>> \o SortChains(RemoveAt(chains, i))

\* part_003 304-310.
buildPointsForWay(ways, nodes, wayId, nodeIds) ==
    LET present == SelectSeq(nodeIds, LAMBDA n : n \in DOMAIN nodes)
    IN  [k \in 1..Len(present) |->
            [lat |-> nodes[present[k]].lat, lon |-> nodes[present[k]].lon,
             speed |-> ways[wayId].speed, wayId |-> ways[wayId].id]]

\* part_003 321-328: the end of currentWay that lies on the last point of
\* the path, by coordinates: "start", "end", or "none" (the discontinuity).
JoinAt(lastPointOfPath, currentWay, nodes) ==
    LET startNodeOfCurrent == nodes[currentWay.nodes[1]]
        endNodeOfCurrent == nodes[Last(currentWay.nodes)]
    IN  IF /\ lastPointOfPath.lat = startNodeOfCurrent.lat
           /\ lastPointOfPath.lon = startNodeOfCurrent.lon
        THEN "start"
        ELSE IF /\ lastPointOfPath.lat = endNodeOfCurrent.lat
                /\ lastPointOfPath.lon = endNodeOfCurrent.lon
        THEN "end"
        ELSE "none"

\* part_003 316-332: the ways after the first one.
RECURSIVE FlattenRest(_, _, _, _)
FlattenRest(ways, nodes, rest, finalPath) ==
    IF rest = <<>> \/ finalPath = <<>> THEN finalPath
    ELSE LET currentWay == ways[Head(rest)]
             join == JoinAt(Last(finalPath), currentWay, nodes)
             added ==
                 IF join = "start"
                 THEN buildPointsForWay(ways, nodes, currentWay.id,
                                        Tail(currentWay.nodes))
                 ELSE IF join = "end"
                 THEN buildPointsForWay(ways, nodes, currentWay.id,
                                        Tail(reverse(currentWay.nodes)))
                 ELSE buildPointsForWay(ways, nodes, currentWay.id,
                                        currentWay.nodes)
         IN  FlattenRest(ways, nodes, Tail(rest), finalPath \o added)

\* part_003 302-333.
Flatten(ways, nodes, longestChain) ==
    IF longestChain = <<>> THEN <<>>
    ELSE FlattenRest(ways, nodes, Tail(longestChain),
                     buildPointsForWay(ways, nodes, longestChain[1],
                                       ways[longestChain[1]].nodes))

\* The branch of part_003 324-331 taken for each way after the first one.
FlattenJoins(ways, nodes, longestChain) ==
    [k \in 1..(Len(longestChain) - 1) |->
        JoinAt(Last(Flatten(ways, nodes, SubSeq(longestChain, 1, k))),
               ways[longestChain[k + 1]], nodes)]

IsOneway(way) == way.oneway \in {"yes", "true", "1"}

\* Variant: a chain that is one-way for exactly one half keeps its order too.
NormalizeDirectionFromHalf(ways, longestChain, finalPath) ==
    IF finalPath = <<>> THEN finalPath
    ELSE LET onewayWaysCount ==
                 Len(SelectSeq(longestChain, LAMBDA w : IsOneway(ways[w])))
             firstPoint == finalPath[1]
             lastPoint == Last(finalPath)
             isNorthSouthDominant ==
                 Abs(lastPoint.lat - firstPoint.lat)
                     > Abs(lastPoint.lon - firstPoint.lon)
             needsReversing ==
                 IF isNorthSouthDominant THEN firstPoint.lat < lastPoint.lat
                 ELSE firstPoint.lon > lastPoint.lon
         IN  IF Len(longestChain) > 0 /\ 2 * onewayWaysCount >= Len(longestChain)
             THEN finalPath
             ELSE IF needsReversing THEN reverse(finalPath) ELSE finalPath

\* part_003 335-364.
NormalizeDirection(ways, longestChain, finalPath) ==
    IF finalPath = <<>> THEN finalPath
    ELSE LET onewayWaysCount ==
                 Len(SelectSeq(longestChain, LAMBDA w : IsOneway(ways[w])))
             firstPoint == finalPath[1]
             lastPoint == Last(finalPath)
             isNorthSouthDominant ==
                 Abs(lastPoint.lat - firstPoint.lat)
                     > Abs(lastPoint.lon - firstPoint.lon)
             needsReversing ==
                 IF isNorthSouthDominant THEN firstPoint.lat < lastPoint.lat
                 ELSE firstPoint.lon > lastPoint.lon
         IN  IF Len(longestChain) > 0 /\ 2 * onewayWaysCount > Len(longestChain)
             THEN finalPath
             ELSE IF needsReversing THEN reverse(finalPath) ELSE finalPath

\* Variant: the tag is copied from the previous point as it was before the
\* loop touched it.
CarryForwardFromOriginal(done, rest) ==
    [i \in 1..Len(rest) |->
        IF rest[i].speed = NULL /\ i > 1
        THEN [rest[i] EXCEPT !.speed = rest[i - 1].speed,
                             !.wayId = rest[i - 1].wayId]
        ELSE rest[i]]

\* part_003 366-373.
RECURSIVE CarryForward(_, _)
CarryForward(done, rest) ==
    IF rest = <<>> THEN done
    ELSE LET p == Head(rest)
             q == IF p.speed = NULL /\ done # <<>>
                  THEN [p EXCEPT !.speed = Last(done).speed,
                                 !.wayId = Last(done).wayId]
                  ELSE p
         IN  CarryForward(Append(done, q), Tail(rest))

\* part_003 224-376: everything between the parsed answer and the return.
AssembleStreet(elements, nodes) ==
    LET ways == WaysOf(elements)
        keys == OwnKeys(elements)
        built == BuildChains(ways, keys, keys,
                             [chains |-> <<>>, currentChain |-> <<>>,
                              usedWays |-> {}, adds |-> <<>>])
        sorted == SortChains(built.chains)
        longestChain == sorted[1]
        finalPath == Flatten(ways, nodes, longestChain)
        directed == NormalizeDirection(ways, longestChain, finalPath)
        sortedPath == CarryForward(<<>>, directed)
    IN  [chains |-> built.chains, adds |-> built.adds,
         longestChain |-> longestChain, finalPath |-> finalPath,
         joins |-> FlattenJoins(ways, nodes, longestChain),
         directed |-> directed, data |-> sortedPath]

\* Inputs of the assembly check.  The ways run along the nodes 1-2-3-5-4 in
\* either stored orientation, with a side branch 2-4 and a closed way at
\* node 4; they arrive in ascending id order, in descending id order or in
\* ascending order rotated by one.
WayShapes ==
    { <<1, 2>>, <<2, 1>>, <<2, 3>>, <<3, 2>>, <<3, 5, 4>>, <<4, 5, 3>>,
      <<2, 4>>, <<4, 6, 4>> }

NodeIds == 1..6

NodeLayouts ==
    { [n \in NodeIds |-> [lat |-> 0, lon |-> n]],
      [n \in NodeIds |-> [lat |-> n, lon |-> 0]] }

Rotate(seq, r) == SubSeq(seq, r + 1, Len(seq)) \o SubSeq(seq, 1, r)

ReceivedOrders(k) ==
    LET ascending == [i \in 1..k |-> i]
    IN  {ascending, reverse(ascending), Rotate(ascending, IF k = 0 THEN 0 ELSE 1)}

AssembleInput(order, shape, untagged, oneway, layout) ==
    [elements |->
        [i \in 1..Len(order) |->
            [id |-> order[i], nodes |-> shape[order[i]],
             speed |-> IF order[i] \in untagged THEN NULL ELSE PoolSpeed,
             oneway |-> IF order[i] \in oneway THEN "yes" ELSE "no"]],
     nodes |-> layout]

DistinctShapes(k) ==
    {f \in [1..k -> WayShapes] : \A i, j \in 1..k : f[i] = f[j] => i = j}

AssembleInit ==
    /\ PoolIdle(MaxSamplePoints, {"USA"})
    /\ concurrency = 1
    /\ clsInput = NULL
    /\ clsOutput = NULL
    /\ \E k \in 0..MaxWays :
         \E order \in ReceivedOrders(k), shape \in DistinctShapes(k),
            untagged \in {{}, {1}}, oneway \in {{}, {1}, {1, 2}},
            layout \in NodeLayouts :
              asmInput = Some(AssembleInput(order, shape, untagged, oneway, layout))
    /\ asmOutput = NULL
    /\ smpInput = NULL
    /\ smpOutput = NULL
    /\ ServicesIdle

\* part_003 220-237: the answer holds no way; the path is empty.
EmptyAnswer ==
    /\ asmInput # NULL
    /\ asmOutput = NULL
    /\ asmInput[1].elements = <<>>
    /\ asmOutput' = Some([chains |-> <<>>, adds |-> <<>>, longestChain |-> <<>>,
                          finalPath |-> <<>>, joins |-> <<>>, directed |-> <<>>,
                          data |-> <<>>])
    /\ UNCHANGED <<poolVars, histVars, clsVars, asmInput, smpVars, svcVars>>

\* part_003 224-376: the answer holds ways; they are chained and flattened.
AssembleElements ==
    /\ asmInput # NULL
    /\ asmOutput = NULL
    /\ asmInput[1].elements # <<>>
    /\ asmOutput' = Some(AssembleStreet(asmInput[1].elements, asmInput[1].nodes))
    /\ UNCHANGED <<poolVars, histVars, clsVars, asmInput, smpVars, svcVars>>

AssembleNext == EmptyAnswer \/ AssembleElements

AssembleSpec == AssembleInit /\ [][AssembleNext]_vars

\* ------------------------------------------------------ sampling on its own
\* getSamplePoints (part_003 402-474) applied to short paths.  The paths of
\* the check lie on the equator and longitude is measured in units of arc
\* length, so that the great-circle distance of two points is the difference
\* of their longitudes; distances, interval and offset are whole units.
MaxPathPoints == 4
MaxStep == 3
MaxInterval == 3

\* part_003 82-94, on the equator.
haversineDistance(lat1, lon1, lat2, lon2) == Abs(lat2 - lat1) + Abs(lon2 - lon1)

\* Element i of a JavaScript array (indices from 0).
At(array, i) == array[i + 1]

\* part_003 408-415.
RECURSIVE CumulativeDistances(_, _)
CumulativeDistances(path, done) ==
    IF Len(done) >= Len(path) THEN done
    ELSE LET i == Len(done)
             segmentDistance ==
                 haversineDistance(At(path, i - 1).lat, At(path, i - 1).lon,
                                   At(path, i).lat, At(path, i).lon)
         IN  CumulativeDistances(path, Append(done, At(done, i - 1) + segmentDistance))

\* Variant: the sample is put on the vertex before the target distance.
interpolateToVertex(p1, p2, distanceIntoSegment, segmentLength) ==
    [lat |-> p1.lat, lon |-> p1.lon]

\* part_003 396-400 with 457-458: fraction = distanceIntoSegment /
\* segmentLength.  The quotient is exact: on these paths the coordinate
\* difference of a segment is its length or zero.
interpolate(p1, p2, distanceIntoSegment, segmentLength) ==
    [lat |-> p1.lat + ((p2.lat - p1.lat) * distanceIntoSegment) \div segmentLength,
     lon |-> p1.lon + ((p2.lon - p1.lon) * distanceIntoSegment) \div segmentLength]

\* Variant: the target distances run up to and including the total length.
UpToTotal(targetDist, totalPathDistance) == targetDist <= totalPathDistance

\* part_003 427: the loop condition targetDist < totalPathDistance.
BelowTotal(targetDist, totalPathDistance) == targetDist < totalPathDistance

\* part_003 432-434.
RECURSIVE AdvanceIndex(_, _, _, _)
AdvanceIndex(path, cumulativeDistances, currentPathIndex, targetDist) ==
    IF currentPathIndex < Len(path)
         /\ At(cumulativeDistances, currentPathIndex) < targetDist
    THEN AdvanceIndex(path, cumulativeDistances, currentPathIndex + 1, targetDist)
    ELSE currentPathIndex

\* part_003 427-469: the loop from one target distance on.
RECURSIVE SampleLoop(_, _, _, _, _, _)
SampleLoop(path, cumulativeDistances, distanceKm, targetDist, index0, samplePoints) ==
    LET totalPathDistance == Last(cumulativeDistances)
    IN  IF ~BelowTotal(targetDist, totalPathDistance) THEN samplePoints
        ELSE IF targetDist < 0
        THEN SampleLoop(path, cumulativeDistances, distanceKm,
                        targetDist + distanceKm, index0, samplePoints)
        ELSE
        LET currentPathIndex ==
                AdvanceIndex(path, cumulativeDistances, index0, targetDist)
        IN  IF currentPathIndex >= Len(path) THEN samplePoints
            ELSE
            LET p1 == At(path, currentPathIndex - 1)
                p2 == At(path, currentPathIndex)
                segmentStartDist == At(cumulativeDistances, currentPathIndex - 1)
                segmentLength ==
                    At(cumulativeDistances, currentPathIndex) - segmentStartDist
                pushed ==
                    IF segmentLength = 0
                    THEN IF \/ samplePoints = <<>>
                            \/ /\ Last(samplePoints).lat # p1.lat
                               /\ Last(samplePoints).lon # p1.lon
                         THEN Append(samplePoints, p1) ELSE samplePoints
                    ELSE LET interpolatedCoords ==
                                 interpolate(p1, p2, targetDist - segmentStartDist,
                                             segmentLength)
                         IN  Append(samplePoints,
                                    [lat |-> interpolatedCoords.lat,
                                     lon |-> interpolatedCoords.lon,
                                     speed |-> p1.speed, wayId |-> p1.wayId])
            IN  SampleLoop(path, cumulativeDistances, distanceKm,
                           targetDist + distanceKm, currentPathIndex, pushed)

\* part_003 402-474.
getSamplePoints(path, distanceKm, startOffsetKm) ==
    IF Len(path) < 2 \/ distanceKm <= 0 THEN <<>>
    ELSE LET cumulativeDistances == CumulativeDistances(path, <<0>>)
             totalPathDistance == Last(cumulativeDistances)
         IN  IF startOffsetKm >= totalPathDistance /\ totalPathDistance > 0
             THEN <<>>
             ELSE SampleLoop(path, cumulativeDistances, distanceKm,
                             startOffsetKm, 1, <<>>)

\* Inputs of the sampling check: a path is given by the lengths of its
\* segments; point i lies on way i.
RECURSIVE PathOfSteps(_, _)
PathOfSteps(steps, done) ==
    IF steps = <<>> THEN done
    ELSE PathOfSteps(Tail(steps),
                     Append(done, [lat |-> 0, lon |-> Last(done).lon + Head(steps),
                                   speed |-> PoolSpeed, wayId |-> Len(done) + 1]))

SamplePaths ==
    {<<>>} \cup
    UNION { { PathOfSteps(steps, <<[lat |-> 0, lon |-> 0, speed |-> NULL, wayId |-> 1]>>) :
                steps \in [1..(n - 1) -> 0..MaxStep] } : n \in 1..MaxPathPoints }

PathLength(path) == IF path = <<>> THEN 0 ELSE Last(path).lon - path[1].lon

SampleInit ==
    /\ PoolIdle(MaxSamplePoints, {"USA"})
    /\ concurrency = 1
    /\ clsInput = NULL
    /\ clsOutput = NULL
    /\ asmInput = NULL
    /\ asmOutput = NULL
    /\ \E path \in SamplePaths :
         \E distanceKm \in (0 - 1)..MaxInterval :
            \E startOffsetKm \in (0 - 1)..(PathLength(path) + 1) :
               smpInput = Some([path |-> path, distanceKm |-> distanceKm,
                                startOffsetKm |-> startOffsetKm])
    /\ smpOutput = NULL
    /\ ServicesIdle

\* part_000 240: getSamplePoints is called and returns.
SamplePath ==
    /\ smpInput # NULL
    /\ smpOutput = NULL
    /\ smpOutput' = Some(getSamplePoints(smpInput[1].path, smpInput[1].distanceKm,
                                         smpInput[1].startOffsetKm))
    /\ UNCHANGED <<poolVars, histVars, clsVars, asmVars, smpInput, svcVars>>

SampleNext == SamplePath

SampleSpec == SampleInit /\ [][SampleNext]_vars

\* ----------------------------------------- the vision-model call on its own
\* analyzeSpeedSign (geminiService 30-121) followed through its attempts, and
\* the worker's catch block (App.tsx 356-379) applied to what it throws.
\* Messages are sequences of characters, so that toLowerCase and includes
\* are computed on the text itself.
Letters ==
    [ upper |->
        << "A", "B", "C", "D", "E", "F", "G", "H", "I", "J", "K", "L", "M",
           "N", "O", "P", "Q", "R", "S", "T", "U", "V", "W", "X", "Y", "Z" >>,
      lower |->
        << "a", "b", "c", "d", "e", "f", "g", "h", "i", "j", "k", "l", "m",
           "n", "o", "p", "q", "r", "s", "t", "u", "v", "w", "x", "y", "z" >> ]

\* String.prototype.toLowerCase on the letters A-Z.
toLowerCaseText(text) ==
    [i \in DOMAIN text |->
        IF \E k \in DOMAIN Letters.upper : Letters.upper[k] = text[i]
        THEN Letters.lower[CHOOSE k \in DOMAIN Letters.upper : Letters.upper[k] = text[i]]
        ELSE text[i]]

\* String.prototype.includes.
includes(text, part) ==
    \E i \in 0..(Len(text) - Len(part)) : SubSeq(text, i + 1, i + Len(part)) = part

\* The phrases the error tests look for (App.tsx 369 and 377,
\* geminiService 99 and 108).
Phrase ==
    [
      \* "api key"
      apiKey |->
        << "a", "p", "i", " ", "k", "e", "y" >>,
      \* "permission"
      permission |->
        << "p", "e", "r", "m", "i", "s", "s", "i", "o", "n" >>,
      \* "403 forbidden"
      forbidden403 |->
        << "4", "0", "3", " ", "f", "o", "r", "b", "i", "d", "d", "e", "n" >>,
      \* "quota"
      quota |->
        << "q", "u", "o", "t", "a" >>,
      \* "api key not valid"
      apiKeyNotValid |->
        << "a", "p", "i", " ", "k", "e", "y", " ", "n", "o", "t", " ", "v", "a",
        "l", "i", "d" >>,
      \* "permission denied"
      permissionDenied |->
        << "p", "e", "r", "m", "i", "s", "s", "i", "o", "n", " ", "d", "e", "n",
        "i", "e", "d" >> ]

\* The messages analyzeSpeedSign throws (geminiService 109, 113 with
\* MAX_RETRIES being 3, and the prefix of 116).
ErrorText ==
    [
      \* "The provided Google API key appears to be invalid or lacks permissions for the Vertex AI API."
      key |->
        << "T", "h", "e", " ", "p", "r", "o", "v", "i", "d", "e", "d", " ", "G",
        "o", "o", "g", "l", "e", " ", "A", "P", "I", " ", "k", "e", "y", " ",
        "a", "p", "p", "e", "a", "r", "s", " ", "t", "o", " ", "b", "e", " ",
        "i", "n", "v", "a", "l", "i", "d", " ", "o", "r", " ", "l", "a", "c",
        "k", "s", " ", "p", "e", "r", "m", "i", "s", "s", "i", "o", "n", "s",
        " ", "f", "o", "r", " ", "t", "h", "e", " ", "V", "e", "r", "t", "e",
        "x", " ", "A", "I", " ", "A", "P", "I", "." >>,
      \* "Failed to call the Gemini API after 3 attempts due to quota limits. Please check your plan and billing details."
      quota |->
        << "F", "a", "i", "l", "e", "d", " ", "t", "o", " ", "c", "a", "l", "l",
        " ", "t", "h", "e", " ", "G", "e", "m", "i", "n", "i", " ", "A", "P",
        "I", " ", "a", "f", "t", "e", "r", " ", "3", " ", "a", "t", "t", "e",
        "m", "p", "t", "s", " ", "d", "u", "e", " ", "t", "o", " ", "q", "u",
        "o", "t", "a", " ", "l", "i", "m", "i", "t", "s", ".", " ", "P", "l",
        "e", "a", "s", "e", " ", "c", "h", "e", "c", "k", " ", "y", "o", "u",
        "r", " ", "p", "l", "a", "n", " ", "a", "n", "d", " ", "b", "i", "l",
        "l", "i", "n", "g", " ", "d", "e", "t", "a", "i", "l", "s", "." >>,
      \* "Gemini analysis failed: "
      genericPrefix |->
        << "G", "e", "m", "i", "n", "i", " ", "a", "n", "a", "l", "y", "s", "i",
        "s", " ", "f", "a", "i", "l", "e", "d", ":", " " >> ]

\* Messages of the errors generateContent may fail with (geminiService
\* 79-96), and of the error thrown for a malformed answer (64).
ApiMessage ==
    [
      \* "API key not valid. Please pass a valid API key."
      apiKeyNotValid |->
        << "A", "P", "I", " ", "k", "e", "y", " ", "n", "o", "t", " ", "v", "a",
        "l", "i", "d", ".", " ", "P", "l", "e", "a", "s", "e", " ", "p", "a",
        "s", "s", " ", "a", " ", "v", "a", "l", "i", "d", " ", "A", "P", "I",
        " ", "k", "e", "y", "." >>,
      \* "Permission denied on resource project."
      permissionDenied |->
        << "P", "e", "r", "m", "i", "s", "s", "i", "o", "n", " ", "d", "e", "n",
        "i", "e", "d", " ", "o", "n", " ", "r", "e", "s", "o", "u", "r", "c",
        "e", " ", "p", "r", "o", "j", "e", "c", "t", "." >>,
      \* "You exceeded your current quota."
      quotaExceeded |->
        << "Y", "o", "u", " ", "e", "x", "c", "e", "e", "d", "e", "d", " ", "y",
        "o", "u", "r", " ", "c", "u", "r", "r", "e", "n", "t", " ", "q", "u",
        "o", "t", "a", "." >>,
      \* "Resource has been exhausted."
      resourceExhausted |->
        << "R", "e", "s", "o", "u", "r", "c", "e", " ", "h", "a", "s", " ", "b",
        "e", "e", "n", " ", "e", "x", "h", "a", "u", "s", "t", "e", "d", "." >>,
      \* "Quota check failed: API key not valid."
      quotaAndKey |->
        << "Q", "u", "o", "t", "a", " ", "c", "h", "e", "c", "k", " ", "f", "a",
        "i", "l", "e", "d", ":", " ", "A", "P", "I", " ", "k", "e", "y", " ",
        "n", "o", "t", " ", "v", "a", "l", "i", "d", "." >>,
      \* "Internal error encountered."
      internalError |->
        << "I", "n", "t", "e", "r", "n", "a", "l", " ", "e", "r", "r", "o", "r",
        " ", "e", "n", "c", "o", "u", "n", "t", "e", "r", "e", "d", "." >>,
      \* "Invalid confidence type in response"
      invalidConfidence |->
        << "I", "n", "v", "a", "l", "i", "d", " ", "c", "o", "n", "f", "i", "d",
        "e", "n", "c", "e", " ", "t", "y", "p", "e", " ", "i", "n", " ", "r",
        "e", "s", "p", "o", "n", "s", "e" >> ]

\* What generateContent may fail with: the message and the status of the
\* error object (geminiService 79-96).
ApiErrors ==
    { [message |-> ApiMessage.apiKeyNotValid, status |-> "INVALID_ARGUMENT"],
      [message |-> ApiMessage.permissionDenied, status |-> "PERMISSION_DENIED"],
      [message |-> ApiMessage.quotaExceeded, status |-> "RESOURCE_EXHAUSTED"],
      [message |-> ApiMessage.quotaExceeded, status |-> ""],
      [message |-> ApiMessage.resourceExhausted, status |-> "RESOURCE_EXHAUSTED"],
      [message |-> ApiMessage.quotaAndKey, status |-> "RESOURCE_EXHAUSTED"],
      [message |-> ApiMessage.internalError, status |-> "INTERNAL"],
      [message |-> ApiMessage.invalidConfidence, status |-> ""] }

\* What the worker's tests look for in a message (App.tsx 369 and 377).
KeywordsIn(text) ==
    LET lowerCaseError == toLowerCaseText(text)
    IN  (IF includes(lowerCaseError, Phrase.apiKey) THEN {"api key"} ELSE {})
          \cup (IF includes(lowerCaseError, Phrase.permission) THEN {"permission"} ELSE {})
          \cup (IF includes(lowerCaseError, Phrase.forbidden403) THEN {"403 forbidden"} ELSE {})
          \cup (IF includes(lowerCaseError, Phrase.quota) THEN {"quota"} ELSE {})

\* App.tsx 368-379: what the worker does with a thrown message.
RouteError(text) ==
    IF IsFatal(KeywordsIn(text)) THEN "fatal"
    ELSE IF "quota" \in KeywordsIn(text) THEN "quota"
    ELSE "other"

MAX_RETRIES == 3
INITIAL_BACKOFF_MS == 2000

\* geminiService 98-99.
isQuotaError(e) ==
    includes(toLowerCaseText(e.message), Phrase.quota) \/ e.status = "RESOURCE_EXHAUSTED"

\* Variant: every failure is retried while attempts are left.
ShouldRetryAnyError(e, attempt) == attempt < MAX_RETRIES - 1

\* geminiService 101.
ShouldRetry(e, attempt) == isQuotaError(e) /\ attempt < MAX_RETRIES - 1

\* geminiService 102.
backoffTime(attempt) == INITIAL_BACKOFF_MS * 2^attempt

\* geminiService 108-116: the error thrown when the failure is not retried.
ThrownError(e) ==
    LET lowerCaseError == toLowerCaseText(e.message)
    IN  IF includes(lowerCaseError, Phrase.apiKeyNotValid)
             \/ includes(lowerCaseError, Phrase.permissionDenied)
        THEN [kind |-> "authorization", text |-> ErrorText.key]
        ELSE IF isQuotaError(e)
        THEN [kind |-> "quota", text |-> ErrorText.quota]
        ELSE [kind |-> "generic", text |-> ErrorText.genericPrefix \o e.message]

NoOutcome == [kind |-> "none", text |-> <<>>]

\* The state after App is constructed: no service call made, nothing cached.
ServiceInit ==
    /\ PoolIdle(MaxSamplePoints, {"USA"})
    /\ concurrency = 1
    /\ clsInput = NULL
    /\ clsOutput = NULL
    /\ asmInput = NULL
    /\ asmOutput = NULL
    /\ smpInput = NULL
    /\ smpOutput = NULL
    /\ ServicesIdle

\* geminiService 30-46: the call begins and the first request is sent.
analyzeSpeedSign ==
    /\ gemini = NoCall
    /\ gemini' = [pc |-> "generateContent", attempt |-> 0, calls |-> 1,
                  waits |-> <<>>, failures |-> <<>>, outcome |-> NoOutcome,
                  routing |-> "none"]
    /\ UNCHANGED <<poolVars, histVars, clsVars, asmVars, smpVars, overpass, cacheVars>>

\* geminiService 55-74: the model answers with a result or with empty text.
GenerateContentReturns ==
    /\ gemini.pc = "generateContent"
    /\ \E kind \in {"result", "null"} :
         gemini' = [gemini EXCEPT !.pc = "returned",
                                  !.outcome = [kind |-> kind, text |-> <<>>]]
    /\ UNCHANGED <<poolVars, histVars, clsVars, asmVars, smpVars, overpass, cacheVars>>

\* geminiService 76-117: the request fails (or the answer has the wrong
\* types, 63-69); the catch block starts the backoff or throws.
GenerateContentFails ==
    /\ gemini.pc = "generateContent"
    /\ \E e \in ApiErrors :
         gemini' =
            IF ShouldRetry(e, gemini.attempt)
            THEN [gemini EXCEPT !.pc = "backoff",
                                !.failures = Append(@, e),
                                !.waits = Append(@, backoffTime(gemini.attempt))]
            ELSE [gemini EXCEPT !.pc = "thrown",
                                !.failures = Append(@, e),
                                !.outcome = ThrownError(e)]
    /\ UNCHANGED <<poolVars, histVars, clsVars, asmVars, smpVars, overpass, cacheVars>>

\* geminiService 104-105 and 37-46: the wait is over, the loop continues
\* with the next attempt and sends the next request.
BackoffElapses ==
    /\ gemini.pc = "backoff"
    /\ gemini.attempt + 1 < MAX_RETRIES
    /\ gemini' = [gemini EXCEPT !.pc = "generateContent",
                                !.attempt = @ + 1,
                                !.calls = @ + 1]
    /\ UNCHANGED <<poolVars, histVars, clsVars, asmVars, smpVars, overpass, cacheVars>>

\* App.tsx 356-379: the worker catches what analyzeSpeedSign threw.
WorkerCatches ==
    /\ gemini.pc = "thrown"
    /\ gemini' = [gemini EXCEPT !.pc = "caught",
                                !.routing = RouteError(gemini.outcome.text)]
    /\ UNCHANGED <<poolVars, histVars, clsVars, asmVars, smpVars, overpass, cacheVars>>

GeminiNext ==
    \/ analyzeSpeedSign
    \/ GenerateContentReturns
    \/ GenerateContentFails
    \/ BackoffElapses
    \/ WorkerCatches

GeminiSpec == ServiceInit /\ [][GeminiNext]_vars

\* ------------------------------------------- the map-data request on its own
\* The request loop of fetchStreetData (osmService 190-222 and 378-392) after
\* a cache miss, followed through its attempts.
MAX_OSM_RETRIES == 3
INITIAL_OSM_BACKOFF_MS == 2000

\* What one request to the Overpass API may end with: a non-ok status, a
\* body with a remark, a body with or without elements, or a network error.
OverpassAnswers ==
    {[kind |-> "status", status |-> st] : st \in {502, 503, 504} \cup {400, 429}}
        \cup {[kind |-> k, status |-> 200] : k \in {"remark", "elements", "empty"}}
        \cup {[kind |-> "network", status |-> 0]}

\* osmService 204-218: the answer makes the try block throw.
AnswerThrows(answer) == answer.kind \in {"status", "remark", "network"}

\* osmService 205-208.
TemporarilyUnavailable(answer) ==
    answer.kind = "status" /\ answer.status \in {502, 503, 504}

\* osmService 381-387: on the last attempt a temporary failure is rethrown
\* as the "busy or unavailable" error, any other error as it is.
FinalError(answer) ==
    IF TemporarilyUnavailable(answer)
    THEN [kind |-> "busy", status |-> answer.status]
    ELSE answer

\* osmService 192.
osmBackoffTime(attempt) == INITIAL_OSM_BACKOFF_MS * 2^(attempt - 1)

\* osmService 158-196: nothing cached; the first request is sent without a
\* wait (attempt 0).
fetchStreetData ==
    /\ overpass = NoCall
    /\ overpass' = [pc |-> "fetch", attempt |-> 0, requests |-> 1, waits |-> <<>>,
                    answers |-> <<>>, outcome |-> NoOutcome]
    /\ UNCHANGED <<poolVars, histVars, clsVars, asmVars, smpVars, gemini, cacheVars>>

\* osmService 220-222 and 224-376: the answer is usable; the function returns.
OverpassReturns ==
    /\ overpass.pc = "fetch"
    /\ \E answer \in OverpassAnswers :
         /\ ~AnswerThrows(answer)
         /\ overpass' = [overpass EXCEPT !.pc = "returned",
                                         !.answers = Append(@, answer),
                                         !.outcome = [kind |-> answer.kind,
                                                      text |-> <<>>]]
    /\ UNCHANGED <<poolVars, histVars, clsVars, asmVars, smpVars, gemini, cacheVars>>

\* osmService 204-218 with 378-388 and 190-195: the try block throws; the
\* catch block rethrows on the last attempt only, otherwise the loop goes on
\* to the next attempt and starts its wait.
OverpassFails ==
    /\ overpass.pc = "fetch"
    /\ \E answer \in OverpassAnswers :
         /\ AnswerThrows(answer)
         /\ overpass' =
               IF overpass.attempt = MAX_OSM_RETRIES - 1
               THEN [overpass EXCEPT !.pc = "thrown",
                                     !.answers = Append(@, answer),
                                     !.outcome = [kind |-> FinalError(answer).kind,
                                                  text |-> <<>>]]
               ELSE [overpass EXCEPT !.pc = "backoff",
                                     !.attempt = @ + 1,
                                     !.answers = Append(@, answer),
                                     !.waits = Append(@, osmBackoffTime(overpass.attempt + 1))]
    /\ UNCHANGED <<poolVars, histVars, clsVars, asmVars, smpVars, gemini, cacheVars>>

\* osmService 194-201: the wait is over and the next request is sent.
OverpassBackoffElapses ==
    /\ overpass.pc = "backoff"
    /\ overpass' = [overpass EXCEPT !.pc = "fetch", !.requests = @ + 1]
    /\ UNCHANGED <<poolVars, histVars, clsVars, asmVars, smpVars, gemini, cacheVars>>

OverpassNext ==
    \/ fetchStreetData
    \/ OverpassReturns
    \/ OverpassFails
    \/ OverpassBackoffElapses

OverpassSpec == ServiceInit /\ [][OverpassNext]_vars

\* ------------------------------------------------ the path cache on its own
\* getCachedData / setCachedData / clearOSMCache (osmService 96-156) and the
\* use App makes of the array fetchStreetData returns (App.tsx 221-232),
\* over several runs for one street.  Arrays are objects: the heap maps a
\* reference to the array's present contents.  What localStorage holds is
\* the text JSON.stringify made of the contents at that moment, a value
\* that later changes of the array do not reach; JSON.parse makes a new
\* array of it.
MaxRuns == 4

\* The path the assembler produces for the street (three points, by id).
CanonicalPath == <<1, 2, 3>>

\* App.tsx 229-232: highwayPath.reverse() reverses the array in place.
ReverseInPlace(h, ref, reverseDirection) ==
    IF reverseDirection THEN [h EXCEPT ![ref] = reverse(h[ref])] ELSE h

\* App.tsx 221-240 once fetchStreetData has returned the array `ref` whose
\* contents were `returned` at that moment; the path analysed is what the
\* array holds after line 232.
AnalyzeWith(h, ref, reverseDirection, fromCache) ==
    /\ heap' = ReverseInPlace(h, ref, reverseDirection)
    /\ runs' = Append(runs, [reverseDirection |-> reverseDirection,
                             fromCache |-> fromCache,
                             returned |-> h[ref],
                             analysed |-> ReverseInPlace(h, ref, reverseDirection)[ref]])

\* osmService 100-106 and 159-163: the memory cache holds a valid entry;
\* its array itself is returned.
RunFromMemoryCache ==
    /\ Len(runs) < MaxRuns
    /\ memoryCache # NULL
    /\ \E reverseDirection \in BOOLEAN :
         AnalyzeWith(heap, memoryCache[1], reverseDirection, TRUE)
    /\ UNCHANGED <<memoryCache, localStorage>>
    /\ UNCHANGED <<poolVars, histVars, clsVars, asmVars, smpVars, gemini, overpass>>

\* osmService 109-121 and 159-163: no memory entry (the page was reloaded);
\* the stored copy is parsed into a new array, which is cached and returned.
RunFromLocalStorage ==
    /\ Len(runs) < MaxRuns
    /\ memoryCache = NULL
    /\ localStorage # NULL
    /\ LET h == Append(heap, localStorage[1])
           ref == Len(h)
       IN  /\ memoryCache' = Some(ref)
           /\ \E reverseDirection \in BOOLEAN :
                AnalyzeWith(h, ref, reverseDirection, TRUE)
    /\ UNCHANGED localStorage
    /\ UNCHANGED <<poolVars, histVars, clsVars, asmVars, smpVars, gemini, overpass>>

\* osmService 165-376 with 128-144: nothing cached; the path is fetched and
\* assembled, the array is put into the memory cache, a JSON copy of it is
\* stored, and the array is returned.
RunFresh ==
    /\ Len(runs) < MaxRuns
    /\ memoryCache = NULL
    /\ localStorage = NULL
    /\ LET h == Append(heap, CanonicalPath)
           ref == Len(h)
       IN  /\ memoryCache' = Some(ref)
           /\ localStorage' = Some(h[ref])
           /\ \E reverseDirection \in BOOLEAN :
                AnalyzeWith(h, ref, reverseDirection, FALSE)
    /\ UNCHANGED <<poolVars, histVars, clsVars, asmVars, smpVars, gemini, overpass>>

\* The page is reloaded: the module-level memoryCache and every array are
\* gone, localStorage stays.
ReloadPage ==
    /\ memoryCache # NULL
    /\ memoryCache' = NULL
    /\ heap' = <<>>
    /\ UNCHANGED <<localStorage, runs>>
    /\ UNCHANGED <<poolVars, histVars, clsVars, asmVars, smpVars, gemini, overpass>>

\* osmService 146-156.
clearOSMCache ==
    /\ memoryCache # NULL \/ localStorage # NULL
    /\ memoryCache' = NULL
    /\ localStorage' = NULL
    /\ UNCHANGED <<heap, runs>>
    /\ UNCHANGED <<poolVars, histVars, clsVars, asmVars, smpVars, gemini, overpass>>

CacheNext ==
    \/ RunFromMemoryCache
    \/ RunFromLocalStorage
    \/ RunFresh
    \/ ReloadPage
    \/ clearOSMCache

CacheSpec == ServiceInit /\ [][CacheNext]_vars

\* ------------------------------------------------------------ properties
\* A run that started its worker pool has ended.
RunEnded == pc = "idle" /\ results # <<>>

Stored(i) == i \in DOMAIN results /\ results[i] # NULL

HeldBy(w) == IF workers[w].pc \in InFlight THEN {workers[w].index} ELSE {}

\* C1: in every run, whatever the completion order and also when the run is
\* stopped part-way, entry i of the delivered result sequence is the
\* AnalyzedPoint built from input sample point i.
C1_ResultOrder ==
    RunEnded =>
        \A i \in 1..Len(analyzedPoints) :
            /\ i <= Len(pointsToAnalyze)
            /\ analyzedPoints[i].location = pointsToAnalyze[i]
            /\ analyzedPoints[i].osmSpeed = pointsToAnalyze[i].speed
            /\ analyzedPoints[i].id = pointsToAnalyze[i].pos

\* A stopped run whose tasks completed out of order delivered two or more
\* points, fewer than it had samples.
C1_Witness ==
    /\ RunEnded
    /\ outOfOrder
    /\ stopRequested
    /\ Len(analyzedPoints) >= 2
    /\ Len(analyzedPoints) < Len(pointsToAnalyze)

\* C2 (as claimed): when a task fails with a fatal error, the run ends in
\* its error state: the caller sees the terminal error, with the partial
\* results.
C2_FatalReraised ==
    (RunEnded /\ fatalRaised) => (error # NoString /\ isKeyInvalid)

\* C3: once the cancellation flag is set, by the caller or by a fatal error,
\* no worker claims another task: no step that starts or ends with the flag
\* set takes a task from the queue.
ClaimedTasks(cc) == {i \in DOMAIN cc : cc[i] > 0}

C3_NoClaimOnceCancelled ==
    [][ (isCancelledRef \/ isCancelledRef') =>
            /\ ClaimedTasks(claimCount') \subseteq ClaimedTasks(claimCount)
            /\ \A i \in ClaimedTasks(claimCount') : claimCount'[i] = claimCount[i]
      ]_vars

\* A run ended with the flag set, tasks still queued and at least one stored.
C3_Witness ==
    /\ RunEnded
    /\ isCancelledRef
    /\ queue # <<>>
    /\ NumStored(results) >= 1

\* C4 (as claimed): in a run halted by a fatal error the number of
\* AnalyzedPoints produced is at most the number of tasks in flight when the
\* flag was set.
C4_ProducedAtMostInFlight ==
    (RunEnded /\ fatalRaised /\ ~stopRequested) =>
        Len(analyzedPoints) <= atCancel.inFlight

\* C4 (amended): in a run halted by a fatal error the number of
\* AnalyzedPoints produced is at most the number already stored when the
\* flag was set plus the number of tasks in flight at that moment.
C4_ProducedBound ==
    fatalRaised =>
        /\ atCancel.set
        /\ NumStored(results) <= atCancel.stored + atCancel.inFlight
        /\ RunEnded => Len(analyzedPoints) <= atCancel.stored + atCancel.inFlight

\* A fatal error stopped a run that had stored a point before, with two
\* tasks in flight.
C4_Witness ==
    /\ RunEnded
    /\ fatalRaised
    /\ ~stopRequested
    /\ atCancel.stored >= 1
    /\ atCancel.inFlight >= 2

\* C5: every task a worker has claimed eventually has an AnalyzedPoint in
\* its result slot, whether it succeeds or fails and also when the flag is
\* set while it is in flight (given that every external call returns).
C5_ClaimedEventuallyStored ==
    \A i \in 1..LiveSamplePoints :
        (\E w \in DOMAIN workers : i \in HeldBy(w)) ~> Stored(i)

\* After a stop request, a task that was in flight then has been stored.
C5_Witness ==
    /\ stopRequested
    /\ ~fatalRaised
    /\ atCancel.inFlight >= 1
    /\ NumStored(results) > atCancel.stored

\* C6: each sample point is claimed by at most one worker and each index of
\* results is written at most once, by the worker that claimed it.
C6_SingleClaimSingleWrite ==
    /\ \A i \in DOMAIN claimCount :
        /\ claimCount[i] <= 1
        /\ writeCount[i] <= 1
        /\ writeCount[i] = 1 => claimCount[i] = 1
        /\ Stored(i) <=> writeCount[i] = 1
    /\ \A w \in DOMAIN workers : \A i \in HeldBy(w) :
        /\ claimCount[i] = 1
        /\ writeCount[i] = 0
        /\ \A k \in 1..Len(queue) : queue[k] # i
        /\ \A v \in DOMAIN workers : i \in HeldBy(v) => v = w

\* Two workers shared a run of three or more points, all written once.
C6_Witness ==
    /\ RunEnded
    /\ Len(workers) >= 2
    /\ Len(writeCount) >= 3
    /\ \A i \in DOMAIN writeCount : writeCount[i] = 1

\* C7: a run that dispatches tasks and is neither stopped by the caller nor
\* halted by a fatal error ends with exactly one AnalyzedPoint for every
\* input sample point, failed tasks included.
C7_CompleteRunFull ==
    (RunEnded /\ ~stopRequested /\ ~fatalRaised) =>
        /\ Len(analyzedPoints) = Len(pointsToAnalyze)
        /\ \A i \in 1..Len(pointsToAnalyze) :
              analyzedPoints[i].location = pointsToAnalyze[i]

\* A run with a failed and a classified task completed.
C7_Witness ==
    /\ RunEnded
    /\ ~stopRequested
    /\ ~fatalRaised
    /\ \E i, j \in DOMAIN taskState :
          taskState[i] = "failed" /\ taskState[j] = "classified"

\* C8 (as claimed): every failed task, whichever stage it failed in, stores
\* an AnalyzedPoint with null detected speed and the placeholder image.
C8_FailedKeepsPlaceholder ==
    \A i \in DOMAIN taskState :
        taskState[i] = "failed" =>
            /\ Stored(i)
            /\ results[i][1].detectedSpeed = NoNumber
            /\ results[i][1].imageUrl = Placeholder

\* C8 (amended): every failed task stores an AnalyzedPoint with null
\* detected speed; its image is the placeholder when the task failed while
\* fetching imagery and the fetched image when it failed while detecting.
C8_FailedPointImage ==
    \A i \in DOMAIN taskState :
        taskState[i] = "failed" =>
            /\ Stored(i)
            /\ results[i][1].detectedSpeed = NoNumber
            /\ results[i][1].imageUrl =
                 (IF failedIn[i] = "fetching" THEN Placeholder ELSE Jpeg)

\* One task failed while fetching and another while detecting.
C8_Witness ==
    \E i, j \in DOMAIN failedIn :
        /\ failedIn[i] = "fetching" /\ Stored(i)
        /\ failedIn[j] = "detecting" /\ Stored(j)

\* C9: a failure that is not fatal (quota or any other error) leaves the
\* cancellation flag as it was and does not stop the worker: the task is
\* stored as failed, the worker claims the next queued task, and a run
\* that is neither stopped nor halted dispatches every task.
NonFatalErrors == {MsgGeminiQuota, MsgGeminiOther, MsgStreetViewOther}

NonFatalFailure(w, msg) ==
    /\ w \in DOMAIN workers
    /\ workers[w].pc \in InFlight
    /\ TaskThrows(w, msg)

C9_NonFatalContinues ==
    /\ [][ \A w \in WorkerIds : \A msg \in NonFatalErrors :
             NonFatalFailure(w, msg) =>
                /\ isCancelledRef' = isCancelledRef
                /\ taskState'[workers[w].index] = "failed"
                /\ results'[workers[w].index] # NULL
                /\ workers'[w].pc # "rejected"
                /\ (~isCancelledRef /\ queue # <<>>) =>
                      /\ workers'[w].pc = "fetching"
                      /\ workers'[w].index = Head(queue)
                      /\ queue' = Tail(queue)
         ]_vars
    /\ []( (RunEnded /\ ~stopRequested /\ ~fatalRaised) =>
              /\ queue = <<>>
              /\ \A i \in DOMAIN claimCount : claimCount[i] = 1 )

\* A run whose first task failed without a fatal error went on to classify
\* its last task and completed.
C9_Witness ==
    /\ RunEnded
    /\ ~isCancelledRef
    /\ Len(taskState) >= 2
    /\ taskState[1] = "failed"
    /\ taskState[Len(taskState)] = "classified"
    /\ lastLog = "Analysis complete."

\* C10: the stored isDiscrepancy flag is true when only a detected speed is
\* present, false when no detected speed is present, and when both are
\* present true if the recorded tag has no numeric part, otherwise true
\* exactly when the two values, both in km/h, differ by more than 5.
InKmh(value, mph) == IF mph THEN value * KmhPerMph ELSE value * Scale

ExpectedDiscrepancy(tag, detected, unitsAreMph) ==
    IF detected = NoNumber THEN FALSE
    ELSE IF tag.text = NULL THEN TRUE
    ELSE IF tag.value = NoNumber THEN TRUE
    ELSE LET diff == InKmh(tag.value, tag.mph) - InKmh(detected, unitsAreMph)
         IN  diff > 5 * Scale \/ diff < 0 - 5 * Scale

C10_DiscrepancyTable ==
    clsOutput # NULL =>
        clsOutput[1].isDiscrepancy =
            ExpectedDiscrepancy(clsInput[1].tag, clsOutput[1].detectedSpeed,
                                country = "USA")

\* A tag in mph was compared with a detection in km/h and found to agree.
C10_Witness ==
    /\ clsOutput # NULL
    /\ clsInput[1].tag.mph
    /\ country = "Canada"
    /\ clsOutput[1].detectedSpeed # NoNumber
    /\ ~clsOutput[1].isDiscrepancy

\* C11: every AnalyzedPoint stored with a detected speed has a confidence at
\* or above the threshold and a detected value inside the country's bounds
\* (5 to 90 for USA, 10 to 150 otherwise); a detection that fails either
\* test is stored with detected speed null.
C11_DetectedSpeedValidated ==
    clsOutput # NULL =>
        LET out == clsOutput[1]
            r == clsInput[1].analysisResult
            lo == IF country = "USA" THEN 5 ELSE 10
            hi == IF country = "USA" THEN 90 ELSE 150
        IN  /\ out.detectedSpeed # NoNumber =>
                  /\ out.confidence # NoNumber
                  /\ out.confidence >= confidenceThreshold
                  /\ out.detectedSpeed >= lo
                  /\ out.detectedSpeed <= hi
            /\ (/\ r # NULL
                /\ r[1].speed_limit # NoNumber
                /\ \/ r[1].confidence < confidenceThreshold
                   \/ r[1].speed_limit < lo
                   \/ r[1].speed_limit > hi)
                  => out.detectedSpeed = NoNumber

\* A detection exactly at the threshold and at the upper bound was kept.
C11_Witness ==
    /\ clsOutput # NULL
    /\ country = "Canada"
    /\ clsOutput[1].confidence = confidenceThreshold
    /\ clsOutput[1].detectedSpeed = 150

\* ------------------------------------------------ properties of the assembly
EndsOf(way) == {way.nodes[1], Last(way.nodes)}

NodesOf(way) == {way.nodes[k] : k \in DOMAIN way.nodes}

RECURSIVE Touched(_, _, _)
Touched(ways, R, n) ==
    IF n = 0 THEN R
    ELSE Touched(ways,
                 R \cup {w \in DOMAIN ways :
                           \E v \in R : EndsOf(ways[v]) \cap EndsOf(ways[w]) # {}},
                 n - 1)

\* The ways form one simple chain: no way visits a node twice, two ways
\* meet in at most one node, which is an end of both, no node is the end of
\* three ways, the ways are connected and do not close a ring.
SimpleChain(ways) ==
    /\ DOMAIN ways # {}
    /\ \A w \in DOMAIN ways :
          /\ Len(ways[w].nodes) >= 2
          /\ Cardinality(NodesOf(ways[w])) = Len(ways[w].nodes)
    /\ \A v, w \in DOMAIN ways :
          v # w => /\ NodesOf(ways[v]) \cap NodesOf(ways[w])
                        \subseteq EndsOf(ways[v]) \cap EndsOf(ways[w])
                   /\ Cardinality(NodesOf(ways[v]) \cap NodesOf(ways[w])) <= 1
    /\ \A n \in NodeIds :
          Cardinality({w \in DOMAIN ways : n \in EndsOf(ways[w])}) <= 2
    /\ Touched(ways, {CHOOSE w \in DOMAIN ways : TRUE}, Cardinality(DOMAIN ways))
          = DOMAIN ways
    /\ Cardinality(UNION {EndsOf(ways[w]) : w \in DOMAIN ways})
          = Cardinality(DOMAIN ways) + 1

RECURSIVE SumNodeCounts(_, _)
SumNodeCounts(ways, ids) ==
    IF ids = {} THEN 0
    ELSE LET w == CHOOSE w \in ids : TRUE
         IN  Len(ways[w].nodes) + SumNodeCounts(ways, ids \ {w})

Assembled == asmOutput # NULL /\ asmInput[1].elements # <<>>

\* C12 (as claimed): for every fragment set that forms a single simple
\* chain, whatever the stored orientation of each fragment and whatever the
\* fragment ids, the assembled path has length equal to the sum of the
\* fragments' node counts minus (number of fragments - 1) and contains no
\* duplicate consecutive coordinates.
C12_SimpleChainPath ==
    LET ways == WaysOf(asmInput[1].elements)
        path == asmOutput[1].data
    IN  (Assembled /\ SimpleChain(ways)) =>
            /\ Len(path) = SumNodeCounts(ways, DOMAIN ways)
                             - (Cardinality(DOMAIN ways) - 1)
            /\ \A i \in 1..(Len(path) - 1) :
                  path[i].lat # path[i + 1].lat \/ path[i].lon # path[i + 1].lon

\* C13: the canonical chain is one of the chains built and no chain has more
\* fragments; among the chains with as many fragments it is the one holding
\* the smallest fragment id, and it is the same chain in whatever order the
\* elements were received.
IdsIn(chain) == {chain[k] : k \in DOMAIN chain}

MinId(chain) == CHOOSE m \in IdsIn(chain) : \A x \in IdsIn(chain) : m <= x

ById(elements) ==
    LET ways == WaysOf(elements)
        ids == Ascending(DOMAIN ways)
    IN  [k \in 1..Len(ids) |-> ways[ids[k]]]

C13_CanonicalChain ==
    Assembled =>
        LET out == asmOutput[1]
            chains == {out.chains[k] : k \in DOMAIN out.chains}
        IN  /\ out.longestChain \in chains
            /\ \A c \in chains : Len(c) <= Len(out.longestChain)
            /\ \A c \in chains :
                  (Len(c) = Len(out.longestChain) /\ c # out.longestChain)
                      => MinId(out.longestChain) < MinId(c)
            /\ out.longestChain
                  = AssembleStreet(ById(asmInput[1].elements),
                                   asmInput[1].nodes).longestChain

\* Two chains of two fragments each tie; the elements did not arrive in
\* ascending id order.
C13_Witness ==
    /\ Assembled
    /\ asmInput[1].elements[1].id # 1
    /\ \E j, k \in DOMAIN asmOutput[1].chains :
          /\ j # k
          /\ Len(asmOutput[1].chains[j]) = Len(asmOutput[1].chains[k])
          /\ asmOutput[1].longestChain = asmOutput[1].chains[j]

\* C14: after chain construction every fragment of the input belongs to
\* exactly one chain and occurs exactly once in it, and it was marked used
\* exactly once, also at junctions of three or more fragments and for
\* fragments whose two ends are the same node.
Occurrences(seq, x) == Cardinality({k \in DOMAIN seq : seq[k] = x})

C14_EachFragmentOnce ==
    Assembled =>
        LET out == asmOutput[1]
        IN  \A id \in DOMAIN WaysOf(asmInput[1].elements) :
                /\ Occurrences(out.adds, id) = 1
                /\ Cardinality({k \in DOMAIN out.chains :
                                  id \in IdsIn(out.chains[k])}) = 1
                /\ \A k \in DOMAIN out.chains :
                      Occurrences(out.chains[k], id) <= 1

\* Three fragments end at the same node and one of them is closed.
C14_Witness ==
    /\ Assembled
    /\ LET ways == WaysOf(asmInput[1].elements)
       IN  /\ \E n \in NodeIds :
                Cardinality({w \in DOMAIN ways : n \in EndsOf(ways[w])}) >= 3
           /\ \E w \in DOMAIN ways : ways[w].nodes[1] = Last(ways[w].nodes)

\* ------------------------------------------------ properties of the sampling
Sampled == smpOutput # NULL

\* Arc length of a point of the equator path, measured from the path's start.
ArcLength(point) == point.lon - smpInput[1].path[1].lon

\* C15: getSamplePoints returns an empty sample set whenever the start
\* offset is at or beyond the total path length and whenever the interval is
\* zero or negative, for every path, paths of total length zero included.
C15_EmptySampleSet ==
    Sampled =>
        ((\/ smpInput[1].startOffsetKm >= PathLength(smpInput[1].path)
          \/ smpInput[1].distanceKm <= 0)
            => smpOutput[1] = <<>>)

\* A path of two coincident points was sampled from offset zero at a
\* positive interval, and nothing came out.
C15_Witness ==
    /\ Sampled
    /\ Len(smpInput[1].path) >= 2
    /\ PathLength(smpInput[1].path) = 0
    /\ smpInput[1].startOffsetKm = 0
    /\ smpInput[1].distanceKm > 0
    /\ smpOutput[1] = <<>>

\* C16: for a path of total arc length L, an interval d > 0 and an offset o
\* with 0 <= o < L there is one sample for every target distance o + k*d
\* below L, the k-th sample lies at arc length o + k*d between its
\* bracketing vertices, so the samples are in strictly increasing order and
\* consecutive samples are exactly d apart.
C16_SamplesAtTargets ==
    LET path == smpInput[1].path
        d == smpInput[1].distanceKm
        o == smpInput[1].startOffsetKm
        L == PathLength(path)
        samples == smpOutput[1]
    IN  (Sampled /\ d > 0 /\ o >= 0 /\ o < L) =>
            /\ Len(samples) = Cardinality({k \in 0..L : o + k * d < L})
            /\ \A k \in 1..Len(samples) :
                  /\ ArcLength(samples[k]) = o + (k - 1) * d
                  /\ \E i \in 1..(Len(path) - 1) :
                        /\ ArcLength(path[i]) <= ArcLength(samples[k])
                        /\ ArcLength(samples[k]) <= ArcLength(path[i + 1])
                        /\ samples[k].lat = path[i].lat
            /\ \A k \in 1..(Len(samples) - 1) :
                  ArcLength(samples[k + 1]) - ArcLength(samples[k]) = d

\* Three samples were taken from an offset inside the first segment and two
\* of them fall strictly inside segments.
C16_Witness ==
    /\ Sampled
    /\ smpInput[1].startOffsetKm = 1
    /\ smpInput[1].distanceKm = 2
    /\ Len(smpOutput[1]) = 3
    /\ \E k \in 1..3 : \A i \in DOMAIN smpInput[1].path :
          smpInput[1].path[i].lon # smpOutput[1][k].lon

\* The vertices of the path are evenly spaced at the sampling interval and
\* the offset is zero.
EvenlySpaced ==
    /\ Len(smpInput[1].path) >= 2
    /\ smpInput[1].distanceKm > 0
    /\ smpInput[1].startOffsetKm = 0
    /\ \A i \in 1..(Len(smpInput[1].path) - 1) :
          smpInput[1].path[i + 1].lon - smpInput[1].path[i].lon
              = smpInput[1].distanceKm

\* C17 (as claimed): resampling with zero offset a path whose vertices are
\* evenly spaced at the sampling interval reproduces the original points:
\* the same number of points at the same positions.
C17_ResampleReproducesAll ==
    (Sampled /\ EvenlySpaced) =>
        /\ Len(smpOutput[1]) = Len(smpInput[1].path)
        /\ \A k \in 1..Len(smpOutput[1]) :
              /\ smpOutput[1][k].lat = smpInput[1].path[k].lat
              /\ smpOutput[1][k].lon = smpInput[1].path[k].lon

\* C17 (amended): resampling with zero offset a path whose vertices are
\* evenly spaced at the sampling interval reproduces every original point
\* but the last: one point fewer, each at the position of the vertex of the
\* same index.
C17_ResampleReproducesAllButLast ==
    (Sampled /\ EvenlySpaced) =>
        /\ Len(smpOutput[1]) = Len(smpInput[1].path) - 1
        /\ \A k \in 1..Len(smpOutput[1]) :
              /\ smpOutput[1][k].lat = smpInput[1].path[k].lat
              /\ smpOutput[1][k].lon = smpInput[1].path[k].lon

\* An evenly spaced path of four vertices was resampled.
C17_Witness ==
    /\ Sampled
    /\ EvenlySpaced
    /\ Len(smpInput[1].path) >= 4
    /\ Len(smpOutput[1]) = 3

\* The interval is half of the path's total arc length (which is not zero)
\* and the offset is zero.
HalfLengthInterval ==
    /\ PathLength(smpInput[1].path) > 0
    /\ 2 * smpInput[1].distanceKm = PathLength(smpInput[1].path)
    /\ smpInput[1].startOffsetKm = 0

\* C18 (as claimed): sampling a path with zero offset and an interval equal
\* to half of the path's total arc length yields exactly 3 sample points.
C18_HalfIntervalThreeSamples ==
    (Sampled /\ HalfLengthInterval) => Len(smpOutput[1]) = 3

\* C18 (amended): sampling a path of non-zero length with zero offset and an
\* interval equal to half of its total arc length yields exactly 2 sample
\* points, the start and the midpoint.
C18_HalfIntervalTwoSamples ==
    (Sampled /\ HalfLengthInterval) =>
        /\ Len(smpOutput[1]) = 2
        /\ ArcLength(smpOutput[1][1]) = 0
        /\ ArcLength(smpOutput[1][2]) = smpInput[1].distanceKm

\* A path of three vertices whose midpoint is not a vertex was sampled at
\* half its length.
C18_Witness ==
    /\ Sampled
    /\ HalfLengthInterval
    /\ Len(smpInput[1].path) = 3
    /\ \A i \in DOMAIN smpInput[1].path :
          2 * ArcLength(smpInput[1].path[i]) # PathLength(smpInput[1].path)


\* C19: the progress count is advanced exactly once for each task that
\* finishes, successfully or not: during a run it never decreases, every step
\* advances it by the number of tasks that step finishes, and at every
\* moment it equals the number of finished tasks, which is at most the
\* number of sample points being analysed.
Finished(ts) == Cardinality({i \in DOMAIN ts : ts[i] \in {"classified", "failed"}})

C19_ProgressCountsFinished ==
    /\ [](/\ progress = Finished(taskState)
          /\ progress <= Len(pointsToAnalyze))
    /\ [][ pc # "idle" =>
             /\ progress' >= progress
             /\ progress' - progress = Finished(taskState') - Finished(taskState)
             /\ progress' - progress <= 1
         ]_vars

\* A run of three or more tasks ended with every task counted, failed ones
\* included.
C19_Witness ==
    /\ RunEnded
    /\ Len(pointsToAnalyze) >= 3
    /\ progress = Len(pointsToAnalyze)
    /\ \E i \in DOMAIN taskState : taskState[i] = "failed"

\* C20: with concurrency level N, at every moment of a run at most N tasks
\* are in flight (claimed from the queue but not yet stored), whatever the
\* number of sample points.
TasksInFlight ==
    {i \in DOMAIN claimCount : claimCount[i] > 0 /\ results[i] = NULL}

C20_AtMostNInFlight ==
    /\ Cardinality(TasksInFlight) <= concurrency
    /\ NumInFlight(workers) <= concurrency

\* Every worker of a pool of two holds a task while another task waits in
\* the queue.
C20_Witness ==
    /\ concurrency = 2
    /\ Cardinality(TasksInFlight) = 2
    /\ queue # <<>>


\* C21 (as claimed): for every canonical chain the assembler builds,
\* flattening joins each subsequent fragment to the running path at an end
\* it shares with the path's last point: the discontinuity branch is never
\* taken, the shared end is emitted only once, and consecutive path points
\* are neighbours in one of the chain's fragments.
NodeAt(point) ==
    CHOOSE n \in NodeIds : /\ asmInput[1].nodes[n].lat = point.lat
                           /\ asmInput[1].nodes[n].lon = point.lon

Neighbours(way, m, n) ==
    \E j \in 1..(Len(way.nodes) - 1) :
        {way.nodes[j], way.nodes[j + 1]} = {m, n}

C21_FlattenContiguous ==
    Assembled =>
        LET out == asmOutput[1]
            ways == WaysOf(asmInput[1].elements)
        IN  /\ \A k \in DOMAIN out.joins : out.joins[k] # "none"
            /\ Len(out.finalPath)
                  = SumNodeCounts(ways, IdsIn(out.longestChain))
                      - (Len(out.longestChain) - 1)
            /\ \A i \in 1..(Len(out.finalPath) - 1) :
                  \E w \in IdsIn(out.longestChain) :
                      Neighbours(ways[w], NodeAt(out.finalPath[i]),
                                 NodeAt(out.finalPath[i + 1]))


\* C22: when more than half of the canonical chain's fragments are flagged
\* one-way the returned path keeps the order produced by flattening;
\* otherwise, exactly one half included, the returned path does not start
\* after its end on the dominant axis: if the latitude span between its two
\* ends exceeds the longitude span its first point is not south of its
\* last point, else its first point is not east of its last point.
Coordinates(path) == [i \in 1..Len(path) |-> <<path[i].lat, path[i].lon>>]

OnewayCount(ways, chain) ==
    Cardinality({k \in DOMAIN chain : ways[chain[k]].oneway \in {"yes", "true", "1"}})

C22_DirectionNormalized ==
    (Assembled /\ asmOutput[1].data # <<>>) =>
        LET out == asmOutput[1]
            ways == WaysOf(asmInput[1].elements)
            first == out.data[1]
            last == out.data[Len(out.data)]
            latSpan == IF last.lat >= first.lat THEN last.lat - first.lat
                       ELSE first.lat - last.lat
            lonSpan == IF last.lon >= first.lon THEN last.lon - first.lon
                       ELSE first.lon - last.lon
        IN  /\ Coordinates(out.data) \in {Coordinates(out.finalPath),
                                          reverse(Coordinates(out.finalPath))}
            /\ IF 2 * OnewayCount(ways, out.longestChain) > Len(out.longestChain)
               THEN Coordinates(out.data) = Coordinates(out.finalPath)
               ELSE IF latSpan > lonSpan THEN first.lat >= last.lat
                    ELSE first.lon <= last.lon

\* Exactly one half of a chain of two fragments is one-way and the path was
\* reversed.
C22_Witness ==
    /\ Assembled
    /\ Len(asmOutput[1].longestChain) = 2
    /\ OnewayCount(WaysOf(asmInput[1].elements), asmOutput[1].longestChain) = 1
    /\ Coordinates(asmOutput[1].data) # Coordinates(asmOutput[1].finalPath)

\* C23: in the returned path every point at index i > 0 whose own fragment
\* has no speed tag carries the speed tag and the fragment id of point i-1
\* as they stand after that point's own carry-forward, and every other
\* point keeps its own tag and fragment id; the carry runs along the path
\* in its final direction.
C23_CarryForward ==
    Assembled =>
        LET out == asmOutput[1]
        IN  /\ Len(out.data) = Len(out.directed)
            /\ Coordinates(out.data) = Coordinates(out.directed)
            /\ \A i \in 1..Len(out.data) :
                  IF out.directed[i].speed = NULL /\ i > 1
                  THEN /\ out.data[i].speed = out.data[i - 1].speed
                       /\ out.data[i].wayId = out.data[i - 1].wayId
                  ELSE /\ out.data[i].speed = out.directed[i].speed
                       /\ out.data[i].wayId = out.directed[i].wayId

\* After a reversal, two consecutive points of an untagged fragment carry
\* the tag and id of the tagged fragment before them.
C23_Witness ==
    /\ Assembled
    /\ Coordinates(asmOutput[1].directed) # Coordinates(asmOutput[1].finalPath)
    /\ \E i \in 2..(Len(asmOutput[1].data) - 1) :
          /\ asmOutput[1].directed[i].speed = NULL
          /\ asmOutput[1].directed[i + 1].speed = NULL
          /\ asmOutput[1].data[i + 1].speed # NULL
          /\ asmOutput[1].data[i + 1].wayId # asmOutput[1].directed[i + 1].wayId


\* C24: within one task a failure of the capture-date metadata lookup alone
\* never fails the task: sign detection runs and the AnalyzedPoint is
\* stored with a null image date.  A failure of the imagery lookup aborts
\* the task with that error before any sign detection, whatever the
\* metadata lookup returned.
C24_MetadataFailureIsWarning ==
    \A i \in DOMAIN lookups :
        LET l == lookups[i]
        IN  /\ (~l.pending /\ l.image /\ ~l.metadata) =>
                 /\ taskState[i] \in {"detecting", "classified", "failed"}
                 /\ taskState[i] = "detecting" =>
                       \E w \in DOMAIN workers :
                           /\ workers[w].pc = "detecting"
                           /\ workers[w].index = i
                           /\ workers[w].imageDate = NoString
                 /\ taskState[i] = "failed" => failedIn[i] = "detecting"
                 /\ taskState[i] \in {"classified", "failed"} =>
                       /\ Stored(i)
                       /\ results[i][1].imageDate = NoString
                       /\ results[i][1].imageUrl = Jpeg
            /\ (~l.pending /\ ~l.image) =>
                 /\ taskState[i] = "failed"
                 /\ failedIn[i] = "fetching"
                 /\ Stored(i)
                 /\ results[i][1] = FailedPoint(pointsToAnalyze[i], Placeholder, NoString)
                 /\ IsFatal(l.error) => fatalRaised

\* One task was classified although its metadata lookup failed, and another
\* failed in the imagery stage although its metadata lookup succeeded.
C24_Witness ==
    /\ \E i \in DOMAIN lookups :
          /\ ~lookups[i].pending /\ lookups[i].image /\ ~lookups[i].metadata
          /\ taskState[i] = "classified"
          /\ results[i][1].imageDate = NoString
    /\ \E j \in DOMAIN lookups :
          /\ ~lookups[j].pending /\ ~lookups[j].image /\ lookups[j].metadata
          /\ taskState[j] = "failed"


\* C30: each run starts with the cancellation flag cleared.  While a run is
\* in progress the flag is set only if cancellation was requested during
\* that run (by the user or by a fatal error), also when the run was
\* started with the flag still set from an earlier run; without such a
\* request no worker exits while the queue holds a task, the run ends as
\* complete with every sample point delivered (until a click without inputs
\* replaces the status line), and a run is reported as stopped only after
\* such a request.
C30_FlagClearedAtStart ==
    /\ (pc # "idle" /\ ~stopRequested /\ ~fatalRaised) =>
          /\ ~isCancelledRef
          /\ \A w \in DOMAIN workers : workers[w].pc = "exited" => queue = <<>>
    /\ (RunEnded /\ lastLog # "Analysis halted" /\ ~stopRequested /\ ~fatalRaised) =>
          /\ lastLog = "Analysis complete."
          /\ Len(analyzedPoints) = Len(pointsToAnalyze)
    /\ (RunEnded /\ lastLog = "Analysis stopped.") => (stopRequested \/ fatalRaised)

\* A run that was started with the flag still set from an earlier run has
\* ended as complete with all of its sample points delivered.
C30_Witness ==
    /\ afterStop
    /\ RunEnded
    /\ lastLog = "Analysis complete."
    /\ Len(analyzedPoints) = MaxSamplePoints


\* C29: every analysis run terminates with the loading state cleared: given
\* that every external call eventually returns, a run that is loading
\* reaches a state in which every worker it started has settled, the handler
\* is back at rest and isLoading is false; the handler is never at rest with
\* isLoading set, whichever way the run ended (missing input, empty path, no
\* sample points, completion, user cancellation, fatal error).
C29_RunTerminates ==
    /\ [](pc = "idle" => ~isLoading)
    /\ isLoading ~> (/\ ~isLoading
                     /\ pc = "idle"
                     /\ \A w \in DOMAIN workers : workers[w].pc \in Settled)

\* A run has ended after a fatal error: one worker rejected, another one
\* finished the task it had in flight and exited, and loading is cleared.
C29_Witness ==
    /\ pc = "idle"
    /\ ~isLoading
    /\ fatalRaised
    /\ atCancel.inFlight >= 2
    /\ \E w \in DOMAIN workers : workers[w].pc = "rejected"
    /\ \E w \in DOMAIN workers : workers[w].pc = "exited"


\* C25: for one image analyzeSpeedSign calls the vision model at most 3
\* times (MAX_RETRIES).  Every attempt after the first follows a failure of
\* the quota / rate-limit class and a wait of 2000 * 2^attempt ms, attempt
\* being the 0-based number of the attempt that failed; any other failure,
\* and the third quota failure, ends the call with a thrown error and no
\* further attempt.
GeminiCalling == gemini.pc # "idle"

C25_BoundedQuotaRetries ==
    GeminiCalling =>
        /\ gemini.calls <= 3
        /\ gemini.calls = gemini.attempt + 1
        /\ Len(gemini.waits) = gemini.attempt + (IF gemini.pc = "backoff" THEN 1 ELSE 0)
        /\ \A a \in DOMAIN gemini.waits :
              /\ gemini.waits[a] = 2000 * 2^(a - 1)
              /\ isQuotaError(gemini.failures[a])
        /\ \A a \in DOMAIN gemini.failures :
              (~isQuotaError(gemini.failures[a]) \/ a = 3) =>
                  /\ a = Len(gemini.failures)
                  /\ gemini.calls = a
                  /\ gemini.pc \in {"thrown", "caught"}
                  /\ gemini.outcome.kind \in {"authorization", "quota", "generic"}
        /\ gemini.pc \in {"thrown", "caught"} =>
              LET last == gemini.failures[Len(gemini.failures)]
              IN  ~isQuotaError(last) \/ Len(gemini.failures) = 3

\* The third attempt failed with a quota error after waits of 2000 and
\* 4000 ms, and the call has thrown.
C25_Witness ==
    /\ GeminiCalling
    /\ gemini.pc = "thrown"
    /\ gemini.calls = 3
    /\ gemini.waits = <<2000, 4000>>
    /\ isQuotaError(gemini.failures[3])
    /\ gemini.outcome.kind = "quota"

\* C26: the error analyzeSpeedSign throws for an authorization failure is
\* classified fatal by the worker, and the error it throws once its
\* rate-limit retries are exhausted is classified as quota and is not
\* fatal; the messages the pool is run with are what the worker's tests
\* see in these two texts.
C26_ErrorRouting ==
    /\ KeywordsIn(ErrorText.key) = MsgGeminiKey
    /\ KeywordsIn(ErrorText.quota) = MsgGeminiQuota
    /\ KeywordsIn(ErrorText.genericPrefix) = MsgGeminiOther
    /\ (GeminiCalling /\ gemini.pc = "caught") =>
          /\ gemini.outcome.kind = "authorization" => gemini.routing = "fatal"
          /\ gemini.outcome.kind = "quota" =>
                /\ gemini.routing = "quota"
                /\ gemini.calls = 3
                /\ \A a \in DOMAIN gemini.failures : isQuotaError(gemini.failures[a])
          /\ \A a \in DOMAIN gemini.failures :
                LET lowerCaseError == toLowerCaseText(gemini.failures[a].message)
                IN  (/\ a = Len(gemini.failures)
                     /\ \/ includes(lowerCaseError, Phrase.apiKeyNotValid)
                        \/ includes(lowerCaseError, Phrase.permissionDenied))
                        => gemini.routing = "fatal"

\* The worker has caught the error thrown after three quota failures and
\* classified it as quota.
C26_Witness ==
    /\ GeminiCalling
    /\ gemini.pc = "caught"
    /\ gemini.outcome.kind = "quota"
    /\ gemini.routing = "quota"
    /\ Len(gemini.failures) = 3


\* C27 (as claimed): when the map-data service answers with a non-ok status
\* other than 502, 503 or 504, fetchStreetData sends no further request and
\* throws that error; only temporary-unavailability errors are retried, and
\* at most 3 requests are sent in total.
C27_OtherStatusFailsImmediately ==
    overpass.pc # "idle" =>
        /\ overpass.requests <= 3
        /\ \A a \in DOMAIN overpass.answers :
              LET answer == overpass.answers[a]
              IN  /\ (answer.kind = "status" /\ answer.status \notin {502, 503, 504}) =>
                        /\ a = Len(overpass.answers)
                        /\ overpass.requests = a
                        /\ overpass.pc = "thrown"
                        /\ overpass.outcome.kind = "status"
                  /\ a < overpass.requests =>
                        (answer.kind = "status" /\ answer.status \in {502, 503, 504})


\* C28 (as claimed): within the cache validity period every fetchStreetData
\* call for the street returns the same point sequence in the same order,
\* whatever the caller did with an earlier result: in every run with
\* "reverse direction" enabled the analysed path is the reverse of the
\* canonical path, and in every run without it the canonical path itself.
C28_RunsSeeCanonicalPath ==
    \A r \in DOMAIN runs :
        /\ runs[r].returned = CanonicalPath
        /\ runs[r].analysed = IF runs[r].reverseDirection
                               THEN reverse(CanonicalPath)
                               ELSE CanonicalPath

====
